---- MODULE Spec2Model ----
(***************************************************************************)
(* MEV detection and comparison engine of the P2S repository.              *)
(*                                                                         *)
(*   scripts/analysis/inspect_mev.py   MEVInspector: the four detectors,   *)
(*                                     analyze_block, analyze_blocks,      *)
(*                                     save_results                        *)
(*   scripts/analysis/compare_mev.py   MEVComparator: load_results,        *)
(*                                     calculate_statistics,               *)
(*                                     compare_statistics,                 *)
(*                                     analyze_mev_types                   *)
(*                                                                         *)
(* Units.  Python computes ETH amounts as floats (value / 1e18).  The      *)
(* model computes the same quantities exactly, as integers:                *)
(*   tx.value        whole ETH          (1 = 10^18 wei)                    *)
(*   tx.gasPrice     whole gwei         (1 = 10^9 wei)                     *)
(*   receipt.gasUsed thousands of gas   (21 = 21000 gas)                   *)
(*   every ETH amount of a record: micro-ETH (1 ETH = MicroPerEth)         *)
(* so gasUsed * gasPrice / 1e18 ETH is gasUsed * gasPrice micro-ETH, and   *)
(* value / 1e18 ETH is value * MicroPerEth micro-ETH.  Quotients (per      *)
(* transaction averages, means, medians, percentages) are exact fractions. *)
(***************************************************************************)
EXTENDS Integers, Sequences, FiniteSets, TLC

VARIABLES
    chain,      \* the node behind the RPC endpoint: block number -> what a fetch gives
    op,         \* the method of MEVInspector being called ("idle" before the call)
    arg,        \* its argument: the block number
    ret,        \* what the call gave: [kind, val]
    pc,         \* analyze_blocks: position in the loop
    start_block,
    end_block,
    block_num,  \* analyze_blocks: the loop variable
    analyses,   \* analyze_blocks: the list being built
    calls,      \* analyze_blocks: block numbers handed to analyze_block, in order
    disk,       \* the results file save_results wrote ("absent" before)
    ethereum_data,  \* MEVComparator.ethereum_data, the loaded ethereum file
    p2s_data,   \* MEVComparator.p2s_data, the loaded p2s file
    cached_blocks,  \* EthereumBlockExtractor.cached_blocks
    validators, \* P2SSimulator.validators: validator id -> its record
    results     \* P2SSimulator.results: the blocks simulated for each protocol

vars == <<chain, op, arg, ret, pc, start_block, end_block, block_num, analyses,
          calls, disk, ethereum_data, p2s_data, cached_blocks, validators, results>>

-----------------------------------------------------------------------------
(* Bounds of the model *)

\* longest block over the full transaction alphabet
MaxTxsWide == 2
\* longest block over the reduced alphabets
MaxTxs == 3
MaxTxsDeep == 7
MaxTxsQuiet == 6
\* highest block number of a range scan
MaxBlock == 3
\* most analyses in a results file given to the comparator
MaxAnalyses == 2
MaxWindow == 6
\* longest raw block over the full alphabet of field encodings
MaxRawTxs == 2
\* how far a long raw block may exceed the extractor's transaction limit
MaxOver == 1
\* most validators' profits given to the Gini coefficient, and their magnitude
MaxProfits == 3
MaxProfit == 2
\* validators per protocol, transactions of a simulated block, blocks simulated
MaxValidators == 2
MaxSimTxs == 2
MaxSimBlocks == 2
\* block numbers the API answers for, fetch_block calls, blocks of an extraction
MaxCached == 2
MaxFetches == 3
MaxExtract == 2

-----------------------------------------------------------------------------
(* Program constants *)

\* value / 1e18: one ETH in the unit of the model's amounts (micro-ETH)
MicroPerEth == 1000000
\* if target_gas_price > 50 (gwei)
SandwichGasThreshold == 50
\* range(max(0, i-5), i) and range(i+1, min(len, i+6))
SandwichWindow == 5
\* profit += (value / 1e18) * 0.005, in micro-ETH per ETH
ArbitrageProfitPerEth == 5000
\* profit = (value / 1e18) * 0.01, in micro-ETH per ETH
SandwichProfitPerEth == 10000
\* min(amount_in, amount_out) * 0.001: one part in SwapProfitDivisor
SwapProfitDivisor == 1000
\* block_data['transactions'][:200]
TxLimit == 200
\* int(..., 16)
HexBase == 16
\* tx.get('gas', 21000)
DefaultGas == 21000
\* tx.get('gas_price', 20000000000), in gwei
DefaultGasPriceGwei == 20
\* block_data.get('gas_limit', 30000000)
DefaultGasLimit == 30000000
\* random.randint(50, 200)
SyntheticMinTxs == 50
SyntheticMaxTxs == 200
\* self.gas_cost_per_unit = 0.000001: gas units (at 1 gwei) per ETH of cost
GasUnitsPerEth == 1000000
\* if gas_price > 1e15, in gwei
LikelyWeiGwei == 1000000
\* if value > 1e18 and gas_price < 50
ReorderMinValueEth == 1
ReorderMaxGasPrice == 50
\* (value / 1e18) * 0.05, in percent
ReorderProfitPercent == 5
\* eth_tx.get('gas', 21000)
SimDefaultGas == 21000
\* block_reward = 2.0 + sum(... * 0.1)
BaseRewardEth == 2
FeeSharePercent == 10
\* calculate_reordering_opportunity(transactions) * 0.1 and * 1.0, in percent
P2SVisiblePercent == 10
PoSVisiblePercent == 100
\* mev_opportunity * 0.6, in percent
ExtractionPercent == 60
\* stake = random.uniform(1000, 10000)
MinStake == 1000
MaxStake == 10000

-----------------------------------------------------------------------------
(* Python values *)

\* None, for a field that holds an address, a hash or nothing
None == [tag |-> "None", id |-> <<>>, form |-> ""]

\* An address string.  form "mixed" is the checksummed spelling, "lower" the
\* all-lower-case spelling of the same address.
Addr(id, form) == [tag |-> "str", id |-> <<id>>, form |-> form]

\* the empty string ''
EmptyStr == [tag |-> "str", id |-> <<>>, form |-> ""]

\* str.lower() on an address string
Lower(a) == IF a = EmptyStr THEN a ELSE [a EXCEPT !.form = "lower"]

\* A transaction hash as web3 gives it (HexBytes) and as a hex string
HexBytes(n, i) == [tag |-> "HexBytes", id |-> <<n, i>>, form |-> ""]
HexStr(n, i) == [tag |-> "str", id |-> <<n, i>>, form |-> ""]

\* bool(x) for the values above: None and '' are falsy, the rest truthy
Truthy(x) == x # None /\ x # EmptyStr

\* to_hex_string: HexBytes -> its hex string, a str -> itself
to_hex_string(value) ==
    IF value.tag = "HexBytes" THEN HexStr(value.id[1], value.id[2]) ELSE value

\* Exact fractions n/d, d > 0, in lowest terms
RECURSIVE Gcd(_, _)
Gcd(a, b) == IF b = 0 THEN a ELSE Gcd(b, a % b)

Abs(x) == IF x < 0 THEN -x ELSE x

Frac(n, d) ==
    LET g == Gcd(Abs(n), d)
    IN  IF n = 0 THEN [num |-> 0, den |-> 1] ELSE [num |-> n \div g, den |-> d \div g]

Zero == Frac(0, 1)

FracOfInt(n) == Frac(n, 1)

FracAdd(x, y) == Frac(x.num * y.den + y.num * x.den, x.den * y.den)

FracLess(x, y) == x.num * y.den < y.num * x.den

FracPos(x) == x.num > 0

-----------------------------------------------------------------------------
(* MEVInspector class constants *)

UniswapV2Router == Addr("0x7a250d56", "mixed")
UniswapV3Router == Addr("0xE592427A", "mixed")
SushiSwapRouter == Addr("0xd9e1cE17", "mixed")
OneInchRouter == Addr("0x11111112", "mixed")
MetamaskRouter == Addr("0x881D4023", "mixed")

DEX_ROUTERS ==
    (UniswapV2Router :> "UniswapV2") @@ (UniswapV3Router :> "UniswapV3") @@
    (SushiSwapRouter :> "SushiSwap") @@ (OneInchRouter :> "1inch") @@
    (MetamaskRouter :> "Metamask")

WETH == Addr("0xC02aaA39", "mixed")

-----------------------------------------------------------------------------
(* The node: blocks and receipts *)

\* a receipt lookup that misses (TransactionNotFound)
NoReceipt == [found |-> FALSE, status |-> 0, gasUsed |-> 0]

Receipt(status, gasUsed) == [found |-> TRUE, status |-> status, gasUsed |-> gasUsed]

\* A full transaction object of a block (a dict), with hash HexBytes(n, i)
Tx(n, i, from, to, value, gasPrice) ==
    [isdict |-> TRUE, hash |-> HexBytes(n, i), from |-> from, to |-> to,
     value |-> value, gasPrice |-> gasPrice]

\* An entry of block['transactions'] that is not a dict (a bare hash)
BareHash(n, i) ==
    [isdict |-> FALSE, hash |-> HexBytes(n, i), from |-> None, to |-> None,
     value |-> 0, gasPrice |-> 0]

\* What the node holds for a block number: status "ok" with the block and the
\* receipts of its transactions (by position), "not_found", or "error" (the
\* fetch fails in some other way)
NodeBlock(n, miner, txs, rcpts) ==
    [status |-> "ok",
     block |-> [number |-> n, timestamp |-> 1000 + n, miner |-> miner,
                transactions |-> txs],
     receipts |-> rcpts]

NodeMissing(status) ==
    [status |-> status,
     block |-> [number |-> 0, timestamp |-> 0, miner |-> None, transactions |-> <<>>],
     receipts |-> <<>>]

\* self.network
network == "ethereum"

\* MEVInspector.get_block: the block, or None for BlockNotFound and for any
\* other exception
get_block(block_number) ==
    IF block_number \in DOMAIN chain /\ chain[block_number].status = "ok"
    THEN [isNone |-> FALSE, block |-> chain[block_number].block]
    ELSE [isNone |-> TRUE, block |-> NodeMissing("not_found").block]

\* MEVInspector.get_transaction_receipt: the receipt, or None when not found
get_transaction_receipt(tx_hash) ==
    LET n == tx_hash.id[1]
        i == tx_hash.id[2]
    IN  IF n \in DOMAIN chain /\ i \in DOMAIN chain[n].receipts
        THEN chain[n].receipts[i]
        ELSE NoReceipt

-----------------------------------------------------------------------------
(* Results of a call *)

Returned(kind, val) == [kind |-> kind, val |-> val]
Raised(exc) == [kind |-> "raise", val |-> exc]
NoCall == [kind |-> "nocall", val |-> ""]

-----------------------------------------------------------------------------
(* MEVInspector.analyze_miner_payments *)

MinerPayment(block_number, miner, coinbase_transfer, total_gas_fees, total_payment) ==
    [block_number |-> block_number, miner_address |-> miner,
     coinbase_transfer |-> coinbase_transfer, total_gas_fees |-> total_gas_fees,
     total_payment |-> total_payment]

\* a slip in the loop: the coinbase transfer is counted only under `if receipt:`
RECURSIVE MinerPaymentLoop_CoinbaseNeedsReceipt(_, _, _)
MinerPaymentLoop_CoinbaseNeedsReceipt(txs, miner, acc) ==
    IF txs = <<>> THEN acc
    ELSE LET tx == Head(txs)
             receipt == get_transaction_receipt(tx.hash)
             fees == IF tx.isdict /\ receipt.found
                     THEN acc.total_gas_fees + receipt.gasUsed * tx.gasPrice
                     ELSE acc.total_gas_fees
             coinbase == IF tx.isdict /\ receipt.found /\ tx.to = miner
                         THEN acc.coinbase_transfer + tx.value * MicroPerEth
                         ELSE acc.coinbase_transfer
         IN  MinerPaymentLoop_CoinbaseNeedsReceipt(Tail(txs), miner,
                              [total_gas_fees |-> fees, coinbase_transfer |-> coinbase])

\* one pass of the loop body over the transactions left; acc is
\* [total_gas_fees, coinbase_transfer]
RECURSIVE MinerPaymentLoop(_, _, _)
MinerPaymentLoop(txs, miner, acc) ==
    IF txs = <<>> THEN acc
    ELSE LET tx == Head(txs)
             receipt == get_transaction_receipt(tx.hash)
             fees == IF tx.isdict /\ receipt.found
                     THEN acc.total_gas_fees + receipt.gasUsed * tx.gasPrice
                     ELSE acc.total_gas_fees
             coinbase == IF tx.isdict /\ tx.to = miner
                         THEN acc.coinbase_transfer + tx.value * MicroPerEth
                         ELSE acc.coinbase_transfer
         IN  MinerPaymentLoop(Tail(txs), miner,
                              [total_gas_fees |-> fees, coinbase_transfer |-> coinbase])

\* a slip in the emission test: >= 0 in place of > 0
analyze_miner_payments_EmitZero(block) ==
    LET acc == MinerPaymentLoop(block.transactions, block.miner,
                                [total_gas_fees |-> 0, coinbase_transfer |-> 0])
        total_payment == acc.coinbase_transfer + acc.total_gas_fees
    IN  IF total_payment >= 0
        THEN <<MinerPayment(block.number, block.miner, acc.coinbase_transfer,
                            acc.total_gas_fees, total_payment)>>
        ELSE <<>>

analyze_miner_payments(block) ==
    LET acc == MinerPaymentLoop(block.transactions, block.miner,
                                [total_gas_fees |-> 0, coinbase_transfer |-> 0])
        total_payment == acc.coinbase_transfer + acc.total_gas_fees
    IN  IF total_payment > 0
        THEN <<MinerPayment(block.number, block.miner, acc.coinbase_transfer,
                            acc.total_gas_fees, total_payment)>>
        ELSE <<>>

-----------------------------------------------------------------------------
(* MEVInspector.detect_swaps *)

Swap(tx_hash, block_number, sender, protocol, token_in, token_out, amount_in, amount_out, profit_potential) ==
    [tx_hash |-> tx_hash, block_number |-> block_number, sender |-> sender,
     protocol |-> protocol, token_in |-> token_in, token_out |-> token_out,
     amount_in |-> amount_in, amount_out |-> amount_out,
     profit_potential |-> profit_potential]

\* a slip in the table lookup: the comparison is case-sensitive
InRouterTable_CaseSensitive(to_address) == to_address \in DOMAIN DEX_ROUTERS

\* to_address.lower() in [r.lower() for r in self.DEX_ROUTERS.keys()], for a str
InRouterTable(to_address) ==
    Lower(to_address) \in {Lower(r) : r \in DOMAIN DEX_ROUTERS}

\* self.DEX_ROUTERS.get(to_address, "Unknown")
RouterProtocol(to_address) ==
    IF to_address \in DOMAIN DEX_ROUTERS THEN DEX_ROUTERS[to_address] ELSE "Unknown"

Min(a, b) == IF a < b THEN a ELSE b

\* a slip in the decoding: the transferred value is taken for both amounts
SwapOf_ValueAsAmounts(tx, block) ==
    LET token_in == None
        token_out == None
        amount_in == tx.value * MicroPerEth
        amount_out == tx.value * MicroPerEth
        profit_potential == IF amount_in > 0 /\ amount_out > 0
                            THEN Min(amount_in, amount_out) \div SwapProfitDivisor
                            ELSE 0
    IN  Swap(to_hex_string(tx.hash), block.number,
             IF Truthy(tx.from) THEN to_hex_string(tx.from) ELSE EmptyStr,
             RouterProtocol(tx.to),
             IF Truthy(token_in) THEN token_in ELSE "Unknown",
             IF Truthy(token_out) THEN token_out ELSE "Unknown",
             amount_in, amount_out, profit_potential)

\* the Swap record of one router transaction with a successful receipt
SwapOf(tx, block) ==
    LET token_in == None
        token_out == None
        amount_in == 0
        amount_out == 0
        profit_potential == IF amount_in > 0 /\ amount_out > 0
                            THEN Min(amount_in, amount_out) \div SwapProfitDivisor
                            ELSE 0
    IN  Swap(to_hex_string(tx.hash), block.number,
             IF Truthy(tx.from) THEN to_hex_string(tx.from) ELSE EmptyStr,
             RouterProtocol(tx.to),
             IF Truthy(token_in) THEN token_in ELSE "Unknown",
             IF Truthy(token_out) THEN token_out ELSE "Unknown",
             amount_in, amount_out, profit_potential)

\* a slip in the receipt test: a missing receipt passes it
SwapDetected_MissPasses(tx) ==
    /\ tx.isdict
    /\ Truthy(tx.to)
    /\ InRouterTable(tx.to)
    /\ LET receipt == get_transaction_receipt(tx.hash)
       IN  ~receipt.found \/ receipt.status = 1

\* whether the loop body appends a Swap for tx
SwapDetected(tx) ==
    /\ tx.isdict
    /\ Truthy(tx.to)
    /\ InRouterTable(tx.to)
    /\ LET receipt == get_transaction_receipt(tx.hash)
       IN  receipt.found /\ receipt.status = 1

RECURSIVE SwapLoop(_, _, _)
SwapLoop(txs, block, swaps) ==
    IF txs = <<>> THEN swaps
    ELSE LET tx == Head(txs)
         IN  SwapLoop(Tail(txs), block,
                      IF SwapDetected(tx) THEN Append(swaps, SwapOf(tx, block)) ELSE swaps)

detect_swaps(block) == SwapLoop(block.transactions, block, <<>>)

-----------------------------------------------------------------------------
(* MEVInspector.detect_arbitrages *)

Arbitrage(tx_hash, block_number, sender, profit_token, profit_amount, path) ==
    [tx_hash |-> tx_hash, block_number |-> block_number, sender |-> sender,
     profit_token |-> profit_token, profit_amount |-> profit_amount, path |-> path]

InSeq(x, seq) == \E k \in 1..Len(seq) : seq[k] = x

\* the keys of tx_by_sender, in insertion order
RECURSIVE SenderKeys(_, _)
SenderKeys(txs, keys) ==
    IF txs = <<>> THEN keys
    ELSE LET tx == Head(txs)
         IN  SenderKeys(Tail(txs),
                        IF tx.isdict /\ ~InSeq(tx.from, keys)
                        THEN Append(keys, tx.from) ELSE keys)

\* tx_by_sender[sender]
TxsBySender(txs, sender) ==
    SelectSeq(txs, LAMBDA tx : tx.isdict /\ tx.from = sender)

\* tx.get('to', '').lower() raises AttributeError when the recipient is None
LowerRaises(tx) == tx.to = None

\* a slip in the receipt test: a receipt that exists counts, failed or not
RECURSIVE ArbitrageProfit_CountsFailed(_, _)
ArbitrageProfit_CountsFailed(swap_txs, profit) ==
    IF swap_txs = <<>> THEN profit
    ELSE LET tx == Head(swap_txs)
             receipt == get_transaction_receipt(tx.hash)
         IN  ArbitrageProfit_CountsFailed(Tail(swap_txs),
                                          IF receipt.found
                                          THEN profit + tx.value * ArbitrageProfitPerEth
                                          ELSE profit)

\* a slip in the profit loop: the value is counted whatever the receipt says
RECURSIVE ArbitrageProfit_IgnoresReceipt(_, _)
ArbitrageProfit_IgnoresReceipt(swap_txs, profit) ==
    IF swap_txs = <<>> THEN profit
    ELSE LET tx == Head(swap_txs)
         IN  ArbitrageProfit_IgnoresReceipt(Tail(swap_txs),
                                            profit + tx.value * ArbitrageProfitPerEth)

\* the profit loop over swap_txs
RECURSIVE ArbitrageProfit(_, _)
ArbitrageProfit(swap_txs, profit) ==
    IF swap_txs = <<>> THEN profit
    ELSE LET tx == Head(swap_txs)
             receipt == get_transaction_receipt(tx.hash)
         IN  ArbitrageProfit(Tail(swap_txs),
                             IF receipt.found /\ receipt.status = 1
                             THEN profit + tx.value * ArbitrageProfitPerEth
                             ELSE profit)

\* the loop over tx_by_sender.items(); gives [raised, arbitrages]
RECURSIVE ArbitrageLoop(_, _, _)
ArbitrageLoop(keys, block, arbitrages) ==
    IF keys = <<>> THEN [raised |-> FALSE, arbitrages |-> arbitrages]
    ELSE LET sender == Head(keys)
             txs == TxsBySender(block.transactions, sender)
             swap_txs == SelectSeq(txs, LAMBDA tx : InRouterTable(tx.to))
             profit == ArbitrageProfit(swap_txs, 0)
         IN  IF Len(txs) >= 2
             THEN IF \E k \in 1..Len(txs) : LowerRaises(txs[k])
                  THEN [raised |-> TRUE, arbitrages |-> <<>>]
                  ELSE IF Len(swap_txs) >= 2 /\ profit > 0
                       THEN ArbitrageLoop(Tail(keys), block,
                                Append(arbitrages,
                                    Arbitrage(to_hex_string(swap_txs[1].hash),
                                              block.number,
                                              IF Truthy(sender) THEN to_hex_string(sender)
                                                                ELSE EmptyStr,
                                              WETH, profit, <<>>)))
                       ELSE ArbitrageLoop(Tail(keys), block, arbitrages)
             ELSE ArbitrageLoop(Tail(keys), block, arbitrages)

detect_arbitrages(block) ==
    LET r == ArbitrageLoop(SenderKeys(block.transactions, <<>>), block, <<>>)
    IN  IF r.raised THEN Raised("AttributeError") ELSE Returned("list", r.arbitrages)

-----------------------------------------------------------------------------
(* MEVInspector.detect_sandwich_attacks *)

SandwichAttack(tx_hash, block_number, attacker, target_tx, front_run_tx, back_run_tx, profit) ==
    [tx_hash |-> tx_hash, block_number |-> block_number, attacker |-> attacker,
     target_tx |-> target_tx, front_run_tx |-> front_run_tx,
     back_run_tx |-> back_run_tx, profit |-> profit]

Max(a, b) == IF a > b THEN a ELSE b

\* a slip in the scan: no break, the last match of the range is kept
RECURSIVE ScanSameSender_LastMatch(_, _, _, _)
ScanSameSender_LastMatch(transactions, j, stop, target_sender) ==
    IF j >= stop THEN None
    ELSE LET later == ScanSameSender_LastMatch(transactions, j + 1, stop, target_sender)
         IN  IF Truthy(later) THEN later
             ELSE IF transactions[j].isdict /\ transactions[j].from = target_sender
                  THEN transactions[j].hash
                  ELSE None

\* a slip in the scan: only the first position of the range is looked at
ScanSameSender_FirstOnly(transactions, j, stop, target_sender) ==
    IF j >= stop THEN None
    ELSE IF transactions[j].isdict /\ transactions[j].from = target_sender
         THEN transactions[j].hash
         ELSE None

\* for j in range(j, stop): the hash of the first dict transaction of the same
\* sender, then break; None when the loop ends without one.  Positions are
\* 1-based here: Python's transactions[j] is transactions[j + 1].
RECURSIVE ScanSameSender(_, _, _, _)
ScanSameSender(transactions, j, stop, target_sender) ==
    IF j >= stop THEN None
    ELSE IF transactions[j].isdict /\ transactions[j].from = target_sender
         THEN transactions[j].hash
         ELSE ScanSameSender(transactions, j + 1, stop, target_sender)

\* the loop over enumerate(transactions) with lookback and lookahead of
\* `window` positions; i is the 1-based position of target_tx
RECURSIVE SandwichLoop(_, _, _, _)
SandwichLoop(block, i, window, attacks) ==
    LET transactions == block.transactions
    IN  IF i > Len(transactions) THEN attacks
        ELSE LET target_tx == transactions[i]
                 target_sender == target_tx.from
                 front_run == ScanSameSender(transactions, Max(1, i - window), i,
                                             target_sender)
                 back_run == ScanSameSender(transactions, i + 1,
                                            Min(Len(transactions), i + window) + 1,
                                            target_sender)
                 profit == target_tx.value * SandwichProfitPerEth
             IN  IF /\ target_tx.isdict
                    /\ target_tx.gasPrice > SandwichGasThreshold
                    /\ (Truthy(front_run) \/ Truthy(back_run))
                 THEN SandwichLoop(block, i + 1, window,
                          Append(attacks,
                              SandwichAttack(to_hex_string(target_tx.hash),
                                  block.number,
                                  IF Truthy(target_sender)
                                  THEN to_hex_string(target_sender) ELSE EmptyStr,
                                  to_hex_string(target_tx.hash),
                                  IF Truthy(front_run) THEN to_hex_string(front_run)
                                                       ELSE None,
                                  IF Truthy(back_run) THEN to_hex_string(back_run)
                                                      ELSE None,
                                  profit)))
                 ELSE SandwichLoop(block, i + 1, window, attacks)

detect_sandwich_attacks_window(block, window) == SandwichLoop(block, 1, window, <<>>)

\* a slip in the window: four positions each way in place of five
detect_sandwich_attacks_NarrowWindow(block) ==
    detect_sandwich_attacks_window(block, SandwichWindow - 1)

\* a slip in the window: only the adjacent positions are looked at
detect_sandwich_attacks_AdjacentOnly(block) == detect_sandwich_attacks_window(block, 1)

detect_sandwich_attacks(block) == detect_sandwich_attacks_window(block, SandwichWindow)

-----------------------------------------------------------------------------
(* MEVInspector.analyze_block *)

\* sum(seq) of a list of numbers, left to right
RECURSIVE SumSeq(_)
SumSeq(seq) == IF Len(seq) = 0 THEN 0 ELSE Head(seq) + SumSeq(Tail(seq))

\* the generator expressions of the four sum(...) lines
TotalPayments(miner_payments) ==
    [k \in 1..Len(miner_payments) |-> miner_payments[k].total_payment]
ProfitPotentials(swaps) == [k \in 1..Len(swaps) |-> swaps[k].profit_potential]
ProfitAmounts(arbitrages) == [k \in 1..Len(arbitrages) |-> arbitrages[k].profit_amount]
Profits(sandwich_attacks) == [k \in 1..Len(sandwich_attacks) |-> sandwich_attacks[k].profit]

\* a slip in the total: the sandwich profits are left out
TotalMev_NoSandwich(miner_payments, swaps, arbitrages, sandwich_attacks) ==
    0 + SumSeq(TotalPayments(miner_payments))
      + SumSeq(ProfitPotentials(swaps))
      + SumSeq(ProfitAmounts(arbitrages))

\* total_mev = 0.0, then the four += sum(...) lines
TotalMev(miner_payments, swaps, arbitrages, sandwich_attacks) ==
    0 + SumSeq(TotalPayments(miner_payments))
      + SumSeq(ProfitPotentials(swaps))
      + SumSeq(ProfitAmounts(arbitrages))
      + SumSeq(Profits(sandwich_attacks))

\* mev_per_tx = total_mev / tx_count if tx_count > 0 else 0.0
MevPerTx(total_mev, tx_count) ==
    IF tx_count > 0 THEN Frac(total_mev, tx_count) ELSE Zero

MEVBlockAnalysis(block_number, timestamp, net, miner_payments, swaps, arbitrages, sandwich_attacks, total_mev, mev_per_tx) ==
    [block_number |-> block_number, timestamp |-> timestamp, network |-> net,
     miner_payments |-> miner_payments, swaps |-> swaps, arbitrages |-> arbitrages,
     sandwich_attacks |-> sandwich_attacks, total_mev |-> total_mev,
     mev_per_tx |-> mev_per_tx]

\* Returned("None", ..) for the 'no analysis' outcome, Returned("analysis", a),
\* or the exception a detector raised
analyze_block(block_number) ==
    LET got == get_block(block_number)
        block == got.block
        miner_payments == analyze_miner_payments(block)
        swaps == detect_swaps(block)
        arbitrages == detect_arbitrages(block)
        sandwich_attacks == detect_sandwich_attacks(block)
        total_mev == TotalMev(miner_payments, swaps, arbitrages.val, sandwich_attacks)
        tx_count == Len(block.transactions)
    IN  IF got.isNone THEN Returned("None", None)
        ELSE IF arbitrages.kind = "raise" THEN arbitrages
        ELSE Returned("analysis",
                 MEVBlockAnalysis(block_number, block.timestamp, network,
                                  miner_payments, swaps, arbitrages.val,
                                  sandwich_attacks, total_mev,
                                  MevPerTx(total_mev, tx_count)))

-----------------------------------------------------------------------------
(* MEVInspector.analyze_blocks, save_results; MEVComparator.load_results *)

\* a slip in the loop bounds: range(start_block, end_block)
RangeStop_Exclusive(end) == end

\* range(start_block, end_block + 1): the first number past the loop
RangeStop(end) == end + 1

\* a slip in the handler: nothing is caught
CaughtInRange_Nothing(exc) == FALSE

\* except Exception as e: ... continue
CaughtInRange(exc) == exc \in {"AttributeError", "TypeError", "KeyError", "Exception"}

\* a slip in the dict built for an analysis: the timestamp is left out
AnalysisDict_NoTimestamp(analysis) ==
    [block_number |-> analysis.block_number,
     miner_payments |-> analysis.miner_payments,
     swaps |-> analysis.swaps,
     arbitrages |-> analysis.arbitrages,
     sandwich_attacks |-> analysis.sandwich_attacks,
     total_mev |-> analysis.total_mev,
     mev_per_tx |-> analysis.mev_per_tx]

\* analysis_dict of save_results; asdict(record) is the record's fields as a dict
AnalysisDict(analysis) ==
    [block_number |-> analysis.block_number,
     timestamp |-> analysis.timestamp,
     miner_payments |-> analysis.miner_payments,
     swaps |-> analysis.swaps,
     arbitrages |-> analysis.arbitrages,
     sandwich_attacks |-> analysis.sandwich_attacks,
     total_mev |-> analysis.total_mev,
     mev_per_tx |-> analysis.mev_per_tx]

\* the results dict that save_results dumps as JSON
ResultsDict(net, list) ==
    [network |-> net, timestamp |-> "now", total_blocks |-> Len(list),
     analyses |-> [k \in 1..Len(list) |-> AnalysisDict(list[k])]]

\* json.dump(results, f): the file on disk
save_results(list) == [exists |-> TRUE, json |-> ResultsDict(network, list)]

NoFile == [exists |-> FALSE, json |-> <<>>]

\* MEVComparator.load_results: json.load of the file, FileNotFoundError without it
load_results(file) ==
    IF file.exists THEN Returned("dict", file.json) ELSE Raised("FileNotFoundError")

-----------------------------------------------------------------------------
(* Python arithmetic of the comparator, on exact fractions *)

\* the value a division by zero stands for: ZeroDivisionError was raised
DivError == [num |-> 0, den |-> 0]

IsError(x) == x.den = 0

FracSub(x, y) ==
    IF IsError(x) \/ IsError(y) THEN DivError
    ELSE Frac(x.num * y.den - y.num * x.den, x.den * y.den)

FracMul(x, y) ==
    IF IsError(x) \/ IsError(y) THEN DivError
    ELSE Frac(x.num * y.num, x.den * y.den)

\* x / y
PyDiv(x, y) ==
    IF IsError(x) \/ IsError(y) \/ y.num = 0 THEN DivError
    ELSE IF y.num > 0 THEN Frac(x.num * y.den, x.den * y.num)
                      ELSE Frac(-(x.num * y.den), x.den * (-y.num))

\* sum(values) of a list of fractions
RECURSIVE FracSum(_)
FracSum(values) ==
    IF Len(values) = 0 THEN Zero ELSE FracAdd(Head(values), FracSum(Tail(values)))

\* sorted(values)
RECURSIVE InsertSorted(_, _)
InsertSorted(x, sorted) ==
    IF Len(sorted) = 0 THEN <<x>>
    ELSE IF FracLess(x, Head(sorted)) THEN <<x>> \o sorted
         ELSE <<Head(sorted)>> \o InsertSorted(x, Tail(sorted))

RECURSIVE Sorted(_)
Sorted(values) ==
    IF Len(values) = 0 THEN <<>> ELSE InsertSorted(Head(values), Sorted(Tail(values)))

\* statistics.mean of a non-empty list
Mean(values) == PyDiv(FracSum(values), FracOfInt(Len(values)))

\* statistics.median of a non-empty list
Median(values) ==
    LET sorted == Sorted(values)
        n == Len(values)
    IN  IF n % 2 = 1 THEN sorted[(n + 1) \div 2]
        ELSE PyDiv(FracAdd(sorted[n \div 2], sorted[n \div 2 + 1]), FracOfInt(2))

\* the concatenation of a list of lists
RECURSIVE Flatten(_)
Flatten(lists) == IF Len(lists) = 0 THEN <<>> ELSE Head(lists) \o Flatten(Tail(lists))

\* sum of a list of integers as a fraction
IntSum(ints) == FracOfInt(SumSeq(ints))

-----------------------------------------------------------------------------
(* MEVComparator.calculate_statistics *)

\* the empty dict {}
EmptyDict == [key \in {} |-> Zero]

StatKeys ==
    {"total_blocks", "total_mev", "avg_mev_per_block", "avg_mev_per_tx",
     "median_mev_per_tx", "miner_payments", "swaps", "arbitrages",
     "sandwich_attacks", "total_mev_activities", "mev_activities_per_block"}

\* a slip in the filter: the zero values are kept as samples
PositiveMevPerTx_KeepsZeros(list) == [k \in 1..Len(list) |-> list[k].mev_per_tx]

\* [a.get('mev_per_tx', 0) for a in analyses if a.get('mev_per_tx', 0) > 0]
PositiveMevPerTx(list) ==
    LET all == [k \in 1..Len(list) |-> list[k].mev_per_tx]
    IN  SelectSeq(all, FracPos)

\* sum(len(a.get(kind, [])) for a in analyses)
ActivityCount(list, kind) == SumSeq([k \in 1..Len(list) |-> Len(list[k][kind])])

calculate_statistics(data) ==
    LET list == data.analyses
        total_mev == IntSum([k \in 1..Len(list) |-> list[k].total_mev])
        mev_per_tx_values == PositiveMevPerTx(list)
        miner_payments == ActivityCount(list, "miner_payments")
        swaps == ActivityCount(list, "swaps")
        arbitrages == ActivityCount(list, "arbitrages")
        sandwich_attacks == ActivityCount(list, "sandwich_attacks")
        total_txs == miner_payments + swaps + arbitrages + sandwich_attacks
        blocks == FracOfInt(Len(list))
    IN  IF Len(list) = 0 THEN EmptyDict
        ELSE [key \in StatKeys |->
                CASE key = "total_blocks" -> blocks
                  [] key = "total_mev" -> total_mev
                  [] key = "avg_mev_per_block" -> PyDiv(total_mev, blocks)
                  [] key = "avg_mev_per_tx" ->
                        IF Len(mev_per_tx_values) > 0 THEN Mean(mev_per_tx_values) ELSE Zero
                  [] key = "median_mev_per_tx" ->
                        IF Len(mev_per_tx_values) > 0 THEN Median(mev_per_tx_values) ELSE Zero
                  [] key = "miner_payments" -> FracOfInt(miner_payments)
                  [] key = "swaps" -> FracOfInt(swaps)
                  [] key = "arbitrages" -> FracOfInt(arbitrages)
                  [] key = "sandwich_attacks" -> FracOfInt(sandwich_attacks)
                  [] key = "total_mev_activities" -> FracOfInt(total_txs)
                  [] key = "mev_activities_per_block" -> PyDiv(FracOfInt(total_txs), blocks)]

-----------------------------------------------------------------------------
(* MEVComparator.compare_statistics *)

Hundred == FracOfInt(100)

\* a slip in the guard: every key of eth_stats gets a difference
DifferenceKeys_Unguarded(eth_stats) == DOMAIN eth_stats

\* the keys that pass `if eth_val > 0`
DifferenceKeys(eth_stats) == {key \in DOMAIN eth_stats : FracPos(eth_stats[key])}

\* a slip in the formula: the change is taken relative to the p2s value
Reduction_RelativeToP2S(eth_val, p2s_val) ==
    FracMul(PyDiv(FracSub(eth_val, p2s_val), p2s_val), Hundred)

\* ((eth_val - p2s_val) / eth_val) * 100
Reduction(eth_val, p2s_val) ==
    FracMul(PyDiv(FracSub(eth_val, p2s_val), eth_val), Hundred)

\* p2s_stats.get(key, 0)
GetOrZero(stats, key) == IF key \in DOMAIN stats THEN stats[key] ELSE Zero

compare_statistics ==
    LET eth_stats == calculate_statistics(ethereum_data)
        p2s_stats == calculate_statistics(p2s_data)
        differences ==
            [key \in DifferenceKeys(eth_stats) |->
                [ethereum |-> eth_stats[key],
                 p2s |-> GetOrZero(p2s_stats, key),
                 reduction |-> Reduction(eth_stats[key], GetOrZero(p2s_stats, key)),
                 reduction_abs |-> FracSub(eth_stats[key], GetOrZero(p2s_stats, key))]]
    IN  IF \E key \in DOMAIN differences : IsError(differences[key].reduction)
        THEN Raised("ZeroDivisionError")
        ELSE Returned("dict", [ethereum |-> eth_stats, p2s |-> p2s_stats,
                               differences |-> differences])

-----------------------------------------------------------------------------
(* MEVComparator.analyze_mev_types *)

MevTypes == {"miner_payments", "swaps", "arbitrages", "sandwich_attacks"}

\* the field of a record of each type that carries its payment or profit
ValueField(mev_type) ==
    CASE mev_type = "miner_payments" -> "total_payment"
      [] mev_type = "swaps" -> "profit_potential"
      [] mev_type = "arbitrages" -> "profit_amount"
      [] mev_type = "sandwich_attacks" -> "profit"

\* a slip in the aggregation: one value per block, the block's total of the type
ValuesByType_PerBlockTotals(list, mev_type) ==
    [k \in 1..Len(list) |->
        FracOfInt(SumSeq([j \in 1..Len(list[k][mev_type]) |->
                            list[k][mev_type][j][ValueField(mev_type)]]))]

\* eth_by_type[mev_type] / p2s_by_type[mev_type]: every record's value, in order
ValuesByType(list, mev_type) ==
    Flatten([k \in 1..Len(list) |->
               [j \in 1..Len(list[k][mev_type]) |->
                   FracOfInt(list[k][mev_type][j][ValueField(mev_type)])]])

\* a slip in the guards of avg and median: they are computed for an empty list too
TypeStats_Unguarded(values) ==
    [count |-> Len(values),
     total |-> FracSum(values),
     avg |-> Mean(values),
     median |-> IF Len(values) > 0 THEN Median(values) ELSE DivError]

\* the 'ethereum' / 'p2s' entry of a type
TypeStats(values) ==
    [count |-> Len(values),
     total |-> FracSum(values),
     avg |-> IF Len(values) > 0 THEN Mean(values) ELSE Zero,
     median |-> IF Len(values) > 0 THEN Median(values) ELSE Zero]

\* the 'reduction' entry of a type
TypeReduction(eth_values, p2s_values) ==
    LET eth_total == FracSum(eth_values)
        p2s_total == FracSum(p2s_values)
    IN  [count |-> Len(eth_values) - Len(p2s_values),
         count_pct |-> IF Len(eth_values) > 0
                       THEN FracMul(PyDiv(FracOfInt(Len(eth_values) - Len(p2s_values)),
                                          FracOfInt(Len(eth_values))), Hundred)
                       ELSE Zero,
         total |-> FracSub(eth_total, p2s_total),
         total_pct |-> IF FracPos(eth_total)
                       THEN FracMul(PyDiv(FracSub(eth_total, p2s_total), eth_total),
                                    Hundred)
                       ELSE Zero]

analyze_mev_types ==
    LET result ==
            [mev_type \in MevTypes |->
                LET eth_values == ValuesByType(ethereum_data.analyses, mev_type)
                    p2s_values == ValuesByType(p2s_data.analyses, mev_type)
                IN  [ethereum |-> TypeStats(eth_values),
                     p2s |-> TypeStats(p2s_values),
                     reduction |-> TypeReduction(eth_values, p2s_values)]]
    IN  IF \E mev_type \in MevTypes :
              \/ IsError(result[mev_type].reduction.count_pct)
              \/ IsError(result[mev_type].reduction.total_pct)
        THEN Raised("ZeroDivisionError")
        ELSE Returned("dict", result)

-----------------------------------------------------------------------------
(* Inputs: what the node can hold for a block *)

Miner == Addr("0xMiner", "mixed")
OtherAddr == Addr("0xOther", "mixed")
SenderA == Addr("0xSenderA", "mixed")
SenderB == Addr("0xSenderB", "mixed")

\* a transaction at position i of block n from its shape; the shape "bare" is
\* an entry that is not a dict
TxOfShape(n, i, shape) ==
    IF shape.bare THEN BareHash(n, i)
    ELSE Tx(n, i, shape.from, shape.to, shape.value, shape.gasPrice)

DictShapes(froms, tos, values, prices) ==
    {[bare |-> FALSE, from |-> f, to |-> t, value |-> v, gasPrice |-> g] :
        f \in froms, t \in tos, v \in values, g \in prices}

BareShape == [bare |-> TRUE, from |-> None, to |-> None, value |-> 0, gasPrice |-> 0]

\* the node holds, for block number n, some block of at most maxlen
\* transactions over the shapes, with some assignment of the receipts
NodeHoldsBlock(n, maxlen, shapes, rcpts) ==
    \E k \in 0..maxlen : \E f \in [1..k -> shapes], r \in [1..k -> rcpts] :
        chain = (n :> NodeBlock(n, Miner, [i \in 1..k |-> TxOfShape(n, i, f[i])], r))

ReceiptsAll == {NoReceipt, Receipt(0, 21), Receipt(1, 21)}

\* recipients and receipts: both senders, every kind of recipient (none, the
\* miner, a router in both spellings, some other address), every receipt
\* outcome, and entries that are not dicts
ShapesWide ==
    DictShapes({SenderA, SenderB},
               {None, Miner, UniswapV2Router, Lower(UniswapV2Router), OtherAddr},
               {1}, {80})
    \cup {BareShape}

\* values and gas prices: 0, 1 and 2 ETH to the miner or elsewhere, gas price
\* at and above the sandwich threshold, receipt found or not
ShapesValue == DictShapes({SenderA}, {Miner, OtherAddr}, {0, 1, 2}, {50, 80})
ReceiptsValue == {NoReceipt, Receipt(1, 21)}

\* longer blocks: router and other recipients of 1 or 2 ETH from both senders,
\* receipts successful or failed
ShapesLong == DictShapes({SenderA, SenderB}, {UniswapV2Router, OtherAddr}, {1, 2}, {80})
ReceiptsLong == {Receipt(0, 21), Receipt(1, 21)}

\* blocks longer than the sandwich window: plain transfers of both senders
\* above the gas threshold and of one sender at the threshold, all successful
ShapesDeep ==
    DictShapes({SenderA, SenderB}, {OtherAddr}, {1}, {80})
    \cup DictShapes({SenderA}, {OtherAddr}, {1}, {50})
ReceiptsDeep == {Receipt(1, 21)}

\* quiet blocks: plain transfers of both senders at the gas threshold, and of
\* one sender above it with a larger value, all successful
ShapesQuiet ==
    DictShapes({SenderA, SenderB}, {OtherAddr}, {1}, {50})
    \cup DictShapes({SenderA}, {OtherAddr}, {2}, {80})

NodeHolds(n) ==
    \/ NodeHoldsBlock(n, MaxTxsWide, ShapesWide, ReceiptsAll)
    \/ NodeHoldsBlock(n, MaxTxsWide, ShapesValue, ReceiptsValue)
    \/ NodeHoldsBlock(n, MaxTxs, ShapesLong, ReceiptsLong)
    \/ NodeHoldsBlock(n, MaxTxsDeep, ShapesDeep, ReceiptsDeep)
    \/ NodeHoldsBlock(n, MaxTxsQuiet, ShapesQuiet, ReceiptsDeep)
    \/ \E status \in {"not_found", "error"} : chain = (n :> NodeMissing(status))

-----------------------------------------------------------------------------
(* Spec: one call of a method of MEVInspector on one block *)

RangeIdle ==
    /\ pc = "idle" /\ start_block = 0 /\ end_block = 0 /\ block_num = 0
    /\ analyses = <<>> /\ calls = <<>> /\ disk = NoFile

CompareIdle ==
    /\ ethereum_data = "unset" /\ p2s_data = "unset"

ExtractIdle ==
    /\ cached_blocks = <<>>

SimIdle ==
    /\ validators = <<>> /\ results = "unset"

Init ==
    /\ arg = 1
    /\ NodeHolds(arg)
    /\ op = "idle"
    /\ ret = NoCall
    /\ RangeIdle
    /\ CompareIdle
    /\ ExtractIdle
    /\ SimIdle

Call(name, result) ==
    /\ op = "idle"
    /\ op' = name
    /\ ret' = result
    /\ UNCHANGED <<chain, arg, pc, start_block, end_block, block_num, analyses,
                   calls, disk, ethereum_data, p2s_data, cached_blocks,
                   validators, results>>

\* the detectors are handed a block that was fetched
CallAnalyzeMinerPayments ==
    /\ ~get_block(arg).isNone
    /\ Call("analyze_miner_payments",
            Returned("list", analyze_miner_payments(get_block(arg).block)))

CallDetectSwaps ==
    /\ ~get_block(arg).isNone
    /\ Call("detect_swaps", Returned("list", detect_swaps(get_block(arg).block)))

CallDetectArbitrages ==
    /\ ~get_block(arg).isNone
    /\ Call("detect_arbitrages", detect_arbitrages(get_block(arg).block))

CallDetectSandwichAttacks ==
    /\ ~get_block(arg).isNone
    /\ Call("detect_sandwich_attacks",
            Returned("list", detect_sandwich_attacks(get_block(arg).block)))

CallAnalyzeBlock == Call("analyze_block", analyze_block(arg))

Next ==
    \/ CallAnalyzeMinerPayments
    \/ CallDetectSwaps
    \/ CallDetectArbitrages
    \/ CallDetectSandwichAttacks
    \/ CallAnalyzeBlock

Spec == Init /\ [][Next]_vars

-----------------------------------------------------------------------------
(* SpecRange: a range scan (main with --start and --end), the save of its
   results, and the comparator's load of the saved file *)

\* what the node can hold for block n in a range scan
RangeNodes(n) ==
    {NodeMissing("not_found"), NodeMissing("error"),
     \* no transactions: analysed, no MEV
     NodeBlock(n, Miner, <<>>, <<>>),
     \* a coinbase transfer
     NodeBlock(n, Miner, <<Tx(n, 1, SenderA, Miner, 1, 50)>>, <<Receipt(1, 21)>>),
     \* a contract creation by a sender of two transactions: a detector raises
     NodeBlock(n, Miner,
               <<Tx(n, 1, SenderA, None, 0, 50), Tx(n, 2, SenderA, OtherAddr, 1, 50)>>,
               <<Receipt(1, 21), Receipt(1, 21)>>),
     \* three router transactions of one sender: all four kinds of activity
     NodeBlock(n, Miner,
               <<Tx(n, 1, SenderA, UniswapV2Router, 1, 80),
                 Tx(n, 2, SenderA, Lower(UniswapV2Router), 2, 80),
                 Tx(n, 3, SenderB, OtherAddr, 1, 50)>>,
               <<Receipt(1, 21), Receipt(1, 21), NoReceipt>>)}

InitRange ==
    /\ chain \in [1..MaxBlock -> UNION {RangeNodes(n) : n \in 1..MaxBlock}]
    /\ \A n \in 1..MaxBlock : chain[n] \in RangeNodes(n)
    /\ start_block \in 1..MaxBlock
    /\ end_block \in 0..MaxBlock
    /\ block_num = start_block
    /\ pc = "loop"
    /\ analyses = <<>>
    /\ calls = <<>>
    /\ disk = NoFile
    /\ op = "analyze_blocks" /\ arg = 0 /\ ret = NoCall
    /\ ethereum_data = "unset" /\ p2s_data = "unset"
    /\ ExtractIdle
    /\ SimIdle

\* one iteration of the for loop: analyze_block inside try/except
AnalyzeNext ==
    /\ pc = "loop"
    /\ block_num < RangeStop(end_block)
    /\ LET analysis == analyze_block(block_num)
       IN  /\ calls' = Append(calls, block_num)
           /\ IF analysis.kind = "raise" /\ ~CaughtInRange(analysis.val)
              THEN /\ pc' = "raised"
                   /\ ret' = analysis
                   /\ UNCHANGED <<analyses, block_num>>
              ELSE /\ analyses' = IF analysis.kind = "analysis"
                                  THEN Append(analyses, analysis.val)
                                  ELSE analyses
                   /\ block_num' = block_num + 1
                   /\ UNCHANGED <<pc, ret>>
    /\ UNCHANGED <<chain, op, arg, start_block, end_block, disk, ethereum_data,
                   p2s_data, cached_blocks,
                   validators, results>>

\* the loop is exhausted: return analyses
RangeReturn ==
    /\ pc = "loop"
    /\ ~(block_num < RangeStop(end_block))
    /\ pc' = "returned"
    /\ ret' = Returned("list", analyses)
    /\ UNCHANGED <<chain, op, arg, start_block, end_block, block_num, analyses,
                   calls, disk, ethereum_data, p2s_data, cached_blocks,
                   validators, results>>

\* main: if analyses: inspector.save_results(analyses, args.output)
SaveResults ==
    /\ pc = "returned"
    /\ analyses # <<>>
    /\ disk' = save_results(analyses)
    /\ pc' = "saved"
    /\ UNCHANGED <<chain, op, arg, ret, start_block, end_block, block_num,
                   analyses, calls, ethereum_data, p2s_data, cached_blocks,
                   validators, results>>

\* MEVComparator.__init__: self.ethereum_data = self.load_results(ethereum_file)
LoadResults ==
    /\ pc = "saved"
    /\ LET loaded == load_results(disk)
       IN  IF loaded.kind = "dict"
           THEN ethereum_data' = loaded.val /\ pc' = "loaded" /\ ret' = ret
           ELSE ethereum_data' = ethereum_data /\ pc' = "raised" /\ ret' = loaded
    /\ UNCHANGED <<chain, op, arg, start_block, end_block, block_num,
                   analyses, calls, disk, p2s_data, cached_blocks,
                   validators, results>>

NextRange == AnalyzeNext \/ RangeReturn \/ SaveResults \/ LoadResults

SpecRange == InitRange /\ [][NextRange]_vars

-----------------------------------------------------------------------------
(* SpecCompare: a comparator constructed on two results files, and one call of
   compare_statistics or analyze_mev_types *)

\* records of a results file; the comparator converts no unit, and its
\* percentages do not depend on the unit the amounts are written in
FileMinerPayment(n, amount) == MinerPayment(n, Miner, amount, 0, amount)
FileSwap(n, i) ==
    Swap(HexStr(n, i), n, SenderA, "UniswapV2", "Unknown", "Unknown", 0, 0, 0)
FileArbitrage(n, i, profit) == Arbitrage(HexStr(n, i), n, SenderA, WETH, profit, <<>>)
FileSandwich(n, i, profit) ==
    SandwichAttack(HexStr(n, i), n, SenderA, HexStr(n, i), None, HexStr(n, i + 1), profit)

\* the dict save_results writes for an analysis of block n with these lists
FileAnalysis(n, miner_payments, swaps, arbitrages, sandwich_attacks, tx_count) ==
    LET total_mev == TotalMev(miner_payments, swaps, arbitrages, sandwich_attacks)
    IN  AnalysisDict(MEVBlockAnalysis(n, 1000 + n, network, miner_payments, swaps,
                                      arbitrages, sandwich_attacks, total_mev,
                                      MevPerTx(total_mev, tx_count)))

FileKinds == {"no_mev", "payment_100", "payment_20", "mixed", "swap_only"}

\* the analyses a file can hold for block n: no MEV in an empty block, a miner
\* payment of 100 or of 20 ETH, one of each kind of activity, swaps without profit
FileAnalysisOfKind(kind, n) ==
    CASE kind = "no_mev" -> FileAnalysis(n, <<>>, <<>>, <<>>, <<>>, 0)
      [] kind = "payment_100" ->
            FileAnalysis(n, <<FileMinerPayment(n, 100)>>, <<>>, <<>>, <<>>, 2)
      [] kind = "payment_20" ->
            FileAnalysis(n, <<FileMinerPayment(n, 20)>>, <<>>, <<>>, <<>>, 1)
      [] kind = "mixed" ->
            FileAnalysis(n, <<>>, <<FileSwap(n, 1), FileSwap(n, 2)>>,
                         <<FileArbitrage(n, 1, 3)>>,
                         <<FileSandwich(n, 3, 1), FileSandwich(n, 4, 2)>>, 4)
      [] kind = "swap_only" -> FileAnalysis(n, <<>>, <<FileSwap(n, 2)>>, <<>>, <<>>, 3)

\* a loaded results file of the network with the analyses of the given kinds
FileOf(net, kinds) ==
    [network |-> net, timestamp |-> "now", total_blocks |-> Len(kinds),
     analyses |-> [k \in 1..Len(kinds) |-> FileAnalysisOfKind(kinds[k], k)]]

InitCompare ==
    /\ \E len \in 0..MaxAnalyses : \E kinds \in [1..len -> FileKinds] :
          ethereum_data = FileOf("ethereum", kinds)
    /\ \E len \in 0..MaxAnalyses : \E kinds \in [1..len -> FileKinds] :
          p2s_data = FileOf("p2s", kinds)
    /\ op = "idle" /\ ret = NoCall /\ arg = 0
    /\ chain = <<>>
    /\ RangeIdle
    /\ ExtractIdle
    /\ SimIdle

CallCompareStatistics == Call("compare_statistics", compare_statistics)

CallAnalyzeMevTypes == Call("analyze_mev_types", analyze_mev_types)

NextCompare == CallCompareStatistics \/ CallAnalyzeMevTypes

SpecCompare == InitCompare /\ [][NextCompare]_vars

-----------------------------------------------------------------------------
(* SpecWindow: the sandwich detector run on one block with two window sizes,
   the narrower first *)

InitWindow ==
    /\ arg = 1
    /\ NodeHoldsBlock(arg, MaxTxsDeep, ShapesDeep, ReceiptsDeep)
    /\ op = "idle"
    /\ ret = NoCall
    /\ RangeIdle
    /\ CompareIdle
    /\ ExtractIdle
    /\ SimIdle

CallDetectSandwichAttacksWindows ==
    \E narrow \in 0..MaxWindow : \E wide \in narrow..MaxWindow :
        Call("detect_sandwich_attacks_window",
             Returned("windows",
                      [narrow_window |-> narrow,
                       wide_window |-> wide,
                       narrow |-> detect_sandwich_attacks_window(get_block(arg).block,
                                                                 narrow),
                       wide |-> detect_sandwich_attacks_window(get_block(arg).block,
                                                               wide)]))

NextWindow == CallDetectSandwichAttacksWindows

SpecWindow == InitWindow /\ [][NextWindow]_vars

-----------------------------------------------------------------------------
(* EthereumBlockExtractor.fetch_block.  Gas prices are counted in gwei here:
   the raw encodings denote numbers of gwei. *)

\* a numeric field of a raw transaction: absent, a native integer, or a string
\* given by the values of its characters as hex digits; NotHex is a character
\* that is no hex digit
NotHex == HexBase
Missing == [kind |-> "missing", digits |-> <<>>, n |-> 0]
Native(n) == [kind |-> "int", digits |-> <<>>, n |-> n]
Str(digits) == [kind |-> "str", digits |-> digits, n |-> 0]

\* int(s, 16) raises ValueError on an empty string and on any character that
\* is no hex digit
HexParses(digits) ==
    Len(digits) > 0 /\ \A k \in 1..Len(digits) : digits[k] < HexBase

\* int(s, 16) of a string that parses
RECURSIVE HexValue(_)
HexValue(digits) ==
    IF Len(digits) = 0 THEN 0
    ELSE HexValue(SubSeq(digits, 1, Len(digits) - 1)) * HexBase + digits[Len(digits)]

\* int(tx.get(f, '0'), 16) if isinstance(tx.get(f), str) else tx.get(f, default)
Coerce(field, default) ==
    IF field.kind = "str"
    THEN IF HexParses(field.digits) THEN [raised |-> FALSE, val |-> HexValue(field.digits)]
                                    ELSE [raised |-> TRUE, val |-> 0]
    ELSE IF field.kind = "int" THEN [raised |-> FALSE, val |-> field.n]
                               ELSE [raised |-> FALSE, val |-> default]

\* a transaction of the API's block: 'from' and 'to' are objects holding the
\* address under 'hash', 'to' is null for a contract creation
RawTx(n, i, to, value, gas, gas_price) ==
    [hash |-> HexStr(n, i), from |-> SenderA, to |-> to, value |-> value, gas |-> gas,
     gas_price |-> gas_price, nonce |-> i]

\* the dict appended to transactions for one raw transaction, and whether
\* building it raised
NormalizedTx(tx, timestamp) ==
    LET value == Coerce(tx.value, 0)
        gas == Coerce(tx.gas, DefaultGas)
        gasPrice == Coerce(tx.gas_price, DefaultGasPriceGwei)
    IN  [raised |-> value.raised \/ gas.raised \/ gasPrice.raised,
         tx |-> [hash |-> tx.hash,
                 from |-> tx.from,
                 to |-> IF Truthy(tx.to) THEN tx.to ELSE EmptyStr,
                 value |-> value.val,
                 gas |-> gas.val,
                 gasPrice |-> gasPrice.val,
                 nonce |-> tx.nonce,
                 timestamp |-> timestamp]]

\* what requests.get gives for a block number: a 200 response with the block's
\* JSON, another status code, or an exception
ApiBlock(has_timestamp, has_transactions, transactions) ==
    [status |-> "200",
     data |-> [has_timestamp |-> has_timestamp, has_transactions |-> has_transactions,
               transactions |-> transactions]]
ApiFails(status) ==
    [status |-> status,
     data |-> [has_timestamp |-> FALSE, has_transactions |-> FALSE, transactions |-> <<>>]]

\* block_data.get('timestamp', int(time.time()))
BlockTimestamp(n, data) == IF data.has_timestamp THEN 1000 + n ELSE "now"

\* a slip in the slice: no limit on the number of transactions
Sliced_NoLimit(transactions) == transactions

\* block_data['transactions'][:200]
Sliced(transactions) ==
    SubSeq(transactions, 1, Min(Len(transactions), TxLimit))

\* the body of `if response.status_code == 200`: the processed block, or that
\* an exception was raised while it was built
ProcessedBlock(block_number, data) ==
    LET timestamp == BlockTimestamp(block_number, data)
        raw == IF data.has_transactions THEN Sliced(data.transactions) ELSE <<>>
        built == [i \in 1..Len(raw) |-> NormalizedTx(raw[i], timestamp)]
        transactions == [i \in 1..Len(raw) |-> built[i].tx]
    IN  [raised |-> \E i \in 1..Len(raw) : built[i].raised,
         block |-> [block_number |-> block_number,
                    timestamp |-> timestamp,
                    transaction_count |-> Len(transactions),
                    block_size |-> 0,
                    base_fee |-> 0,
                    gas_used |-> 0,
                    gas_limit |-> DefaultGasLimit,
                    transactions |-> transactions]]

\* generate_synthetic_block: a block of random transactions; the draw decides
\* every random field, and the two ends of the range stand for tx_count
SyntheticTx(draw, i) ==
    [hash |-> [tag |-> "str", id |-> <<"random", draw, i>>, form |-> ""],
     from |-> [tag |-> "str", id |-> <<"random", draw, i, "from">>, form |-> ""],
     to |-> [tag |-> "str", id |-> <<"random", draw, i, "to">>, form |-> ""],
     value |-> draw, gas |-> DefaultGas, gasPrice |-> DefaultGasPriceGwei,
     nonce |-> i - 1, timestamp |-> "now"]

generate_synthetic_block(block_number, tx_count, draw) ==
    [block_number |-> block_number,
     timestamp |-> "now",
     transaction_count |-> tx_count,
     block_size |-> draw,
     base_fee |-> draw,
     gas_used |-> draw,
     gas_limit |-> DefaultGasLimit,
     transactions |-> [i \in 1..tx_count |-> SyntheticTx(draw, i)]]

\* str(block_number)
block_key(block_number) == [tag |-> "str", id |-> <<block_number>>, form |-> "decimal"]

-----------------------------------------------------------------------------
(* SpecExtract: an extractor with an empty cache, and calls of fetch_block on
   the block number the API answers for *)

\* the fields of the short raw blocks: value absent, native, a hex string or
\* a string that is no number; gas absent, a hex string or an empty string;
\* gas price absent or native; and a contract creation
RawShapes ==
    {[to |-> OtherAddr, value |-> v, gas |-> g, gas_price |-> p] :
        v \in {Missing, Native(3), Str(<<1, 0>>), Str(<<NotHex>>)},
        g \in {Missing, Str(<<5, 2, 0, 8>>), Str(<<>>)},
        p \in {Missing, Native(30)}}
    \cup {[to |-> None, value |-> Native(0), gas |-> Native(53000), gas_price |-> Native(30)]}

RawTxOfShape(n, i, shape) == RawTx(n, i, shape.to, shape.value, shape.gas, shape.gas_price)

\* a raw block around the transaction limit: native fields throughout, except
\* that the value of its last transaction may be no number
LongRawBlock(n, len, bad_last) ==
    [i \in 1..len |->
        RawTx(n, i, OtherAddr,
              IF bad_last /\ i = len THEN Str(<<NotHex>>) ELSE Native(1),
              Native(DefaultGas), Native(30))]

ApiHolds(n) ==
    \/ \E k \in 0..MaxRawTxs : \E f \in [1..k -> RawShapes], has_timestamp \in BOOLEAN :
          chain = (n :> ApiBlock(has_timestamp, TRUE,
                                 [i \in 1..k |-> RawTxOfShape(n, i, f[i])]))
    \/ \E len \in (TxLimit - 1)..(TxLimit + MaxOver), bad_last \in BOOLEAN :
          chain = (n :> ApiBlock(TRUE, TRUE, LongRawBlock(n, len, bad_last)))
    \/ chain = (n :> ApiBlock(TRUE, FALSE, <<>>))
    \/ \E status \in {"404", "exception"} : chain = (n :> ApiFails(status))

InitExtract ==
    /\ arg = 1
    /\ ApiHolds(arg)
    /\ op = "idle"
    /\ ret = NoCall
    /\ RangeIdle
    /\ CompareIdle
    /\ ExtractIdle
    /\ SimIdle

\* a slip in the fallback: the synthetic block is returned without being cached
fetch_block_SyntheticNotCached(block_number, cache, tx_count, draw) ==
    LET key == block_key(block_number)
        response == chain[block_number]
        processed == ProcessedBlock(block_number, response.data)
    IN  IF key \in DOMAIN cache
        THEN [block |-> cache[key], cached_blocks |-> cache, api |-> FALSE]
        ELSE IF response.status = "200" /\ ~processed.raised
             THEN [block |-> processed.block,
                   cached_blocks |-> (key :> processed.block) @@ cache,
                   api |-> TRUE]
             ELSE LET block == generate_synthetic_block(block_number, tx_count, draw)
                  IN  [block |-> block, cached_blocks |-> cache, api |-> TRUE]

\* fetch_block on a cache: the cached block if there is one; else the processed
\* block of a 200 response, cached; else a synthetic block (of tx_count
\* transactions, its random fields from the draw), cached.  Gives the block
\* returned, the cache afterwards and whether the API was contacted.
fetch_block(block_number, cache, tx_count, draw) ==
    LET key == block_key(block_number)
        response == chain[block_number]
        processed == ProcessedBlock(block_number, response.data)
    IN  IF key \in DOMAIN cache
        THEN [block |-> cache[key], cached_blocks |-> cache, api |-> FALSE]
        ELSE IF response.status = "200" /\ ~processed.raised
             THEN [block |-> processed.block,
                   cached_blocks |-> (key :> processed.block) @@ cache,
                   api |-> TRUE]
             ELSE LET block == generate_synthetic_block(block_number, tx_count, draw)
                  IN  [block |-> block,
                       cached_blocks |-> (key :> block) @@ cache,
                       api |-> TRUE]

\* fetch_block(arg)
FetchBlock ==
    /\ \E tx_count \in {SyntheticMinTxs, SyntheticMaxTxs}, draw \in 1..2 :
          LET fetched == fetch_block(arg, cached_blocks, tx_count, draw)
          IN  /\ ret' = Returned("block", fetched.block)
              /\ cached_blocks' = fetched.cached_blocks
    /\ op' = "fetch_block"
    /\ UNCHANGED <<chain, arg, pc, start_block, end_block, block_num, analyses,
                   calls, disk, ethereum_data, p2s_data, validators, results>>

NextExtract == FetchBlock

SpecExtract == InitExtract /\ [][NextExtract]_vars

-----------------------------------------------------------------------------
(* SpecCache: an extractor with an empty cache, and fetch_block and
   extract_blocks called in any order on the block numbers the API answers
   for.  calls keeps, for every return of fetch_block, the block number, the
   block returned and whether the API was contacted; disk is the cache file. *)

\* what the API gives for a block number: a block of one well-formed
\* transaction, a block whose transaction has a value that is no number, or
\* no block
CacheResponses(n) ==
    {ApiBlock(TRUE, TRUE, <<RawTx(n, 1, OtherAddr, Native(1), Native(DefaultGas), Native(30))>>),
     ApiBlock(TRUE, TRUE, <<RawTx(n, 1, OtherAddr, Str(<<NotHex>>), Native(DefaultGas), Native(30))>>),
     ApiFails("404")}

InitCache ==
    /\ \E responses \in [1..MaxCached -> UNION {CacheResponses(n) : n \in 1..MaxCached}] :
          /\ \A n \in 1..MaxCached : responses[n] \in CacheResponses(n)
          /\ chain = responses
    /\ arg = 0
    /\ op = "idle"
    /\ ret = NoCall
    /\ RangeIdle
    /\ CompareIdle
    /\ ExtractIdle
    /\ SimIdle

FetchReturn(block_number, fetched) ==
    [block_number |-> block_number, block |-> fetched.block, api |-> fetched.api]

\* fetch_block(n) for some block number n
CallFetchBlock ==
    /\ Len(calls) < MaxFetches
    /\ \E n \in DOMAIN chain :
       \E tx_count \in {SyntheticMinTxs, SyntheticMaxTxs}, draw \in 1..2 :
          LET fetched == fetch_block(n, cached_blocks, tx_count, draw)
          IN  /\ arg' = n
              /\ ret' = Returned("block", fetched.block)
              /\ cached_blocks' = fetched.cached_blocks
              /\ calls' = Append(calls, FetchReturn(n, fetched))
    /\ op' = "fetch_block"
    /\ UNCHANGED <<chain, pc, start_block, end_block, block_num, analyses,
                   disk, ethereum_data, p2s_data, validators, results>>

\* the loop of extract_blocks from its i-th round on; draws[i + 1] decides the
\* synthetic block of round i, should there be one
RECURSIVE extract_blocks_from(_, _, _, _, _, _, _, _)
extract_blocks_from(i, num_blocks, block_interval, start, cache, blocks, log, draws) ==
    IF i >= num_blocks THEN [blocks |-> blocks, cached_blocks |-> cache, log |-> log]
    ELSE LET block_number == start - (i * block_interval)
         IN  IF block_key(block_number) \in DOMAIN cache
             THEN extract_blocks_from(i + 1, num_blocks, block_interval, start, cache,
                                      Append(blocks, cache[block_key(block_number)]),
                                      log, draws)
             ELSE LET fetched == fetch_block(block_number, cache, draws[i + 1][1],
                                             draws[i + 1][2])
                  IN  extract_blocks_from(i + 1, num_blocks, block_interval, start,
                                          fetched.cached_blocks,
                                          Append(blocks, fetched.block),
                                          Append(log, FetchReturn(block_number, fetched)),
                                          draws)

\* extract_blocks(num_blocks, block_interval, start) on block numbers the API
\* answers for, then save_cache
CallExtractBlocks ==
    /\ \E start \in DOMAIN chain, num_blocks \in 1..MaxExtract, block_interval \in 1..1 :
       \E draws \in [1..num_blocks -> {SyntheticMinTxs, SyntheticMaxTxs} \X (1..2)] :
          /\ start - ((num_blocks - 1) * block_interval) \in DOMAIN chain
          /\ Len(calls) + num_blocks <= MaxFetches
          /\ LET extracted == extract_blocks_from(0, num_blocks, block_interval, start,
                                                  cached_blocks, <<>>, calls, draws)
             IN  /\ arg' = start
                 /\ ret' = Returned("list", extracted.blocks)
                 /\ cached_blocks' = extracted.cached_blocks
                 /\ calls' = extracted.log
                 /\ disk' = [exists |-> TRUE, json |-> extracted.cached_blocks]
    /\ op' = "extract_blocks"
    /\ UNCHANGED <<chain, pc, start_block, end_block, block_num, analyses,
                   ethereum_data, p2s_data, validators, results>>

NextCache == CallFetchBlock \/ CallExtractBlocks

SpecCache == InitCache /\ [][NextCache]_vars

-----------------------------------------------------------------------------
(* SpecMain: main() run once, with --block n or with --start n --end n *)

\* analyze_blocks as a function of its arguments: the loop from block_num on
RECURSIVE analyze_blocks_from(_, _, _)
analyze_blocks_from(num, end, list) ==
    IF ~(num < RangeStop(end)) THEN Returned("list", list)
    ELSE LET analysis == analyze_block(num)
         IN  IF analysis.kind = "raise" /\ ~CaughtInRange(analysis.val)
             THEN analysis
             ELSE analyze_blocks_from(num + 1, end,
                                      IF analysis.kind = "analysis"
                                      THEN Append(list, analysis.val) ELSE list)

analyze_blocks(start, end) == analyze_blocks_from(start, end, <<>>)

\* bool(n) of an argparse integer: 0 is falsy, like an option not given
ArgGiven(n) == n # 0

InitMain ==
    /\ arg \in 0..1
    /\ \/ NodeHoldsBlock(arg, MaxTxsWide, ShapesWide, ReceiptsAll)
       \/ \E status \in {"not_found", "error"} : chain = (arg :> NodeMissing(status))
    /\ op = "idle"
    /\ ret = NoCall
    /\ RangeIdle
    /\ CompareIdle
    /\ ExtractIdle
    /\ SimIdle

\* what main does after the branch on its arguments, given what the analysis
\* gave: an exception leaves main, a non-empty list is saved, an empty one not
MainOutcome(result) ==
    IF result.kind = "raise"
    THEN pc' = "raised" /\ ret' = result /\ UNCHANGED <<analyses, disk>>
    ELSE /\ ret' = result
         /\ analyses' = result.val
         /\ pc' = "complete"
         /\ disk' = IF result.val # <<>> THEN save_results(result.val) ELSE disk

\* neither `if args.block` nor `elif args.start and args.end`: sys.exit(1)
MainUsage == pc' = "exit_1" /\ UNCHANGED <<ret, analyses, disk>>

\* main --block arg: analysis = inspector.analyze_block(args.block);
\* if analysis: inspector.save_results([analysis], args.output)
MainBlock ==
    /\ op = "idle"
    /\ op' = "main_block"
    /\ IF ArgGiven(arg)
       THEN LET analysis == analyze_block(arg)
            IN  MainOutcome(IF analysis.kind = "raise" THEN analysis
                            ELSE IF analysis.kind = "analysis"
                                 THEN Returned("list", <<analysis.val>>)
                                 ELSE Returned("list", <<>>))
       ELSE MainUsage
    /\ UNCHANGED <<chain, arg, start_block, end_block, block_num, calls,
                   ethereum_data, p2s_data, cached_blocks,
                   validators, results>>

\* main --start arg --end arg: analyses = inspector.analyze_blocks(...);
\* if analyses: inspector.save_results(analyses, args.output)
MainRange ==
    /\ op = "idle"
    /\ op' = "main_range"
    /\ IF ArgGiven(arg) /\ ArgGiven(arg)    \* args.start and args.end, both arg
       THEN MainOutcome(analyze_blocks(arg, arg))
       ELSE MainUsage
    /\ UNCHANGED <<chain, arg, start_block, end_block, block_num, calls,
                   ethereum_data, p2s_data, cached_blocks,
                   validators, results>>

NextMain == MainBlock \/ MainRange

SpecMain == InitMain /\ [][NextMain]_vars

-----------------------------------------------------------------------------
(* P2SSimulator: transactions, validators and the two block simulations.
   The timings (random sleeps and delays) are left out: no record of a
   validator depends on them. *)

\* a gas price: the number n * 10^9 when the unit is "wei", n when it is "gwei"
GasPrice(n, unit) == [n |-> n, unit |-> unit]

\* tx.get(key, default) on a dict
Get(tx, key, default) == IF key \in DOMAIN tx THEN tx[key] ELSE default

\* p percent, as a fraction
Percent(p) == Frac(p, 100)

\* gas_price > 1e9
AboveOneGwei(gas_price) ==
    IF gas_price.unit = "wei" THEN gas_price.n > 1 ELSE gas_price.n > 1000000000

\* gas_price > 1e15
LikelyWei(gas_price) ==
    IF gas_price.unit = "wei" THEN gas_price.n > LikelyWeiGwei ELSE FALSE

\* gas_price / 1e9
DividedByGwei(gas_price) ==
    IF gas_price.unit = "wei" THEN GasPrice(gas_price.n, "gwei") ELSE GasPrice(0, "gwei")

\* gas_price < limit
PriceBelow(gas_price, limit) ==
    IF gas_price.unit = "wei" THEN gas_price.n = 0 ELSE gas_price.n < limit

\* convert_ethereum_tx, for a transaction of the cache (value and gasPrice are
\* ints there); hash, from, to and complexity play no part in the amounts
convert_ethereum_tx(eth_tx) ==
    LET gas_price == Get(eth_tx, "gasPrice", GasPrice(0, "gwei"))
        value == Get(eth_tx, "value", 0)
    IN  [value |-> value,
         gas_price |-> IF AboveOneGwei(gas_price) THEN DividedByGwei(gas_price)
                                                 ELSE gas_price,
         gas_limit |-> Get(eth_tx, "gas", SimDefaultGas)]

\* the loop of calculate_reordering_opportunity; values are whole ETH
RECURSIVE ReorderingLoop(_, _)
ReorderingLoop(transactions, mev_opportunity) ==
    IF transactions = <<>> THEN mev_opportunity
    ELSE LET tx == Head(transactions)
             got == Get(tx, "gasPrice", GasPrice(0, "gwei"))
             gas_price == IF LikelyWei(got) THEN DividedByGwei(got) ELSE got
             value == Get(tx, "value", 0)
         IN  ReorderingLoop(Tail(transactions),
                 IF value > ReorderMinValueEth /\ PriceBelow(gas_price, ReorderMaxGasPrice)
                 THEN FracAdd(mev_opportunity,
                              FracMul(FracOfInt(value), Percent(ReorderProfitPercent)))
                 ELSE mev_opportunity)

calculate_reordering_opportunity(transactions) ==
    IF Len(transactions) < 2 THEN Zero ELSE ReorderingLoop(transactions, Zero)

\* tx.get('gas_price', 20) * tx.get('gas_limit', 21000) * self.gas_cost_per_unit
TxGasCost(tx) ==
    Frac(Get(tx, "gas_price", GasPrice(DefaultGasPriceGwei, "gwei")).n
            * Get(tx, "gas_limit", SimDefaultGas),
         GasUnitsPerEth)

\* gas_cost = sum(... for tx in transactions)
GasCost(transactions) ==
    FracSum([k \in 1..Len(transactions) |-> TxGasCost(transactions[k])])

\* block_reward = 2.0 + sum(... * 0.1 for tx in transactions)
BlockReward(transactions) ==
    FracAdd(FracOfInt(BaseRewardEth),
            FracSum([k \in 1..Len(transactions) |->
                        FracMul(TxGasCost(transactions[k]), Percent(FeeSharePercent))]))

\* create_validator: the record stored under validator_id
create_validator(validator_id, stake, protocol) ==
    [id |-> validator_id, stake |-> stake, protocol |-> protocol,
     blocks_proposed |-> 0, total_rewards |-> Zero, total_gas_costs |-> Zero,
     net_profit |-> Zero, mev_extracted |-> Zero]

\* a slip in the update: net_profit is kept from the previous block
ProposerUpdated_StaleNetProfit(proposer_id, block_reward, gas_cost, extracted) ==
    IF proposer_id \in DOMAIN validators
    THEN LET v == validators[proposer_id]
             total_rewards == FracAdd(v.total_rewards, block_reward)
             total_gas_costs == FracAdd(v.total_gas_costs, gas_cost)
         IN  [validators EXCEPT ![proposer_id] =
                 [v EXCEPT !.blocks_proposed = v.blocks_proposed + 1,
                           !.total_rewards = total_rewards,
                           !.total_gas_costs = total_gas_costs,
                           !.mev_extracted = FracAdd(v.mev_extracted, extracted)]]
    ELSE validators

\* the update of the proposer's record in both simulations; extracted is what
\* is added to mev_extracted (nothing in simulate_p2s_block)
ProposerUpdated(proposer_id, block_reward, gas_cost, extracted) ==
    IF proposer_id \in DOMAIN validators
    THEN LET v == validators[proposer_id]
             total_rewards == FracAdd(v.total_rewards, block_reward)
             total_gas_costs == FracAdd(v.total_gas_costs, gas_cost)
         IN  [validators EXCEPT ![proposer_id] =
                 [v EXCEPT !.blocks_proposed = v.blocks_proposed + 1,
                           !.total_rewards = total_rewards,
                           !.total_gas_costs = total_gas_costs,
                           !.net_profit = FracSub(total_rewards, total_gas_costs),
                           !.mev_extracted = FracAdd(v.mev_extracted, extracted)]]
    ELSE validators

\* the dict a simulation returns, without the timings
SimulatedBlock(protocol, proposer_id, ethereum_block, block_index, transactions, mev_opportunity) ==
    [block_indexber |-> Get(ethereum_block, "block_indexber", block_index),
     proposer |-> proposer_id,
     protocol |-> protocol,
     transaction_count |-> Len(transactions),
     gas_cost |-> GasCost(transactions),
     block_reward |-> BlockReward(transactions),
     mev_opportunity |-> mev_opportunity]

\* transactions = [self.convert_ethereum_tx(tx) for tx in ...]
Converted(ethereum_block) ==
    LET txs == Get(ethereum_block, "transactions", <<>>)
    IN  [k \in 1..Len(txs) |-> convert_ethereum_tx(txs[k])]

\* the value simulate_p2s_block returns
simulate_p2s_block(block_index, proposer_id, ethereum_block) ==
    LET transactions == Converted(ethereum_block)
        mev_opportunity == FracMul(calculate_reordering_opportunity(transactions),
                                   Percent(P2SVisiblePercent))
    IN  SimulatedBlock("P2S", proposer_id, ethereum_block, block_index, transactions,
                       mev_opportunity)

\* the value simulate_ethereum_pos_block returns
simulate_ethereum_pos_block(block_index, proposer_id, ethereum_block) ==
    LET transactions == Converted(ethereum_block)
        mev_opportunity == FracMul(calculate_reordering_opportunity(transactions),
                                   Percent(PoSVisiblePercent))
    IN  SimulatedBlock("Ethereum PoS", proposer_id, ethereum_block, block_index,
                       transactions, mev_opportunity)

\* select_proposer: some validator of the protocol (the draw is weighted by
\* stake, and every stake is positive); the first key when there is none
select_proposer(protocol) ==
    LET of_protocol == {v_id \in DOMAIN validators : validators[v_id].protocol = protocol}
    IN  IF of_protocol = {} THEN {CHOOSE v_id \in DOMAIN validators : TRUE}
        ELSE of_protocol

-----------------------------------------------------------------------------
(* SpecSim: the validators of run_simulation, then the two simulations called
   in any order on blocks of the cache *)

P2SValidator(i) == <<"p2s_validator", i>>
PoSValidator(i) == <<"ethereum_pos_validator", i>>

\* a transaction of a cached block: value in whole ETH, gasPrice in wei
CachedTx(value, gwei) ==
    [value |-> value, gasPrice |-> GasPrice(gwei, "wei"), gas |-> SimDefaultGas]

\* 2 ETH at 20 gwei, 2 ETH at 100 gwei, 1 ETH at 20 gwei
CachedTxs == {CachedTx(2, 20), CachedTx(2, 100), CachedTx(1, 20)}

CachedBlocks ==
    UNION {{[block_number |-> len + 1, transactions |-> txs] :
                txs \in [1..len -> CachedTxs]} : len \in 0..MaxSimTxs}

InitSim ==
    /\ \E stake \in [0..(MaxValidators - 1) -> {MinStake, MaxStake}] :
          validators =
              [v_id \in {P2SValidator(i) : i \in 0..(MaxValidators - 1)}
                        \cup {PoSValidator(i) : i \in 0..(MaxValidators - 1)} |->
                  IF v_id[1] = "p2s_validator"
                  THEN create_validator(v_id, stake[v_id[2]], "P2S")
                  ELSE create_validator(v_id, stake[v_id[2]], "Ethereum PoS")]
    /\ results = [p2s_data |-> <<>>, ethereum_pos_data |-> <<>>]
    /\ op = "idle" /\ ret = NoCall /\ arg = 0
    /\ chain = <<>>
    /\ RangeIdle
    /\ CompareIdle
    /\ ExtractIdle

\* the blocks simulated so far, of both protocols
Simulated == Len(results.p2s_data) + Len(results.ethereum_pos_data)

\* p2s_block = self.simulate_p2s_block(i, p2s_proposer, ethereum_block, ...);
\* self.results['p2s_data'].append(p2s_block)
SimulateP2SBlock ==
    /\ Simulated < MaxSimBlocks
    /\ \E ethereum_block \in CachedBlocks : \E proposer_id \in select_proposer("P2S") :
          LET block == simulate_p2s_block(Len(results.p2s_data), proposer_id,
                                          ethereum_block)
          IN  /\ validators' = ProposerUpdated(proposer_id, block.block_reward,
                                               block.gas_cost, Zero)
              /\ results' = [results EXCEPT !.p2s_data = Append(@, block)]
              /\ ret' = Returned("block", block)
              /\ calls' = Append(calls, [protocol |-> "P2S", proposer |-> proposer_id,
                                         ethereum_block |-> ethereum_block])
    /\ op' = "simulate_p2s_block"
    /\ UNCHANGED <<chain, arg, pc, start_block, end_block, block_num, analyses, disk,
                   ethereum_data, p2s_data, cached_blocks>>

\* ethereum_pos_block = self.simulate_ethereum_pos_block(i, ...);
\* self.results['ethereum_pos_data'].append(ethereum_pos_block)
SimulateEthereumPosBlock ==
    /\ Simulated < MaxSimBlocks
    /\ \E ethereum_block \in CachedBlocks :
       \E proposer_id \in select_proposer("Ethereum PoS") :
          LET block == simulate_ethereum_pos_block(Len(results.ethereum_pos_data),
                                                   proposer_id, ethereum_block)
          IN  /\ validators' = ProposerUpdated(proposer_id, block.block_reward,
                                               block.gas_cost,
                                               FracMul(block.mev_opportunity,
                                                       Percent(ExtractionPercent)))
              /\ results' = [results EXCEPT !.ethereum_pos_data = Append(@, block)]
              /\ ret' = Returned("block", block)
              /\ calls' = Append(calls, [protocol |-> "Ethereum PoS",
                                         proposer |-> proposer_id,
                                         ethereum_block |-> ethereum_block])
    /\ op' = "simulate_ethereum_pos_block"
    /\ UNCHANGED <<chain, arg, pc, start_block, end_block, block_num, analyses, disk,
                   ethereum_data, p2s_data, cached_blocks>>

NextSim == SimulateP2SBlock \/ SimulateEthereumPosBlock

SpecSim == InitSim /\ [][NextSim]_vars

-----------------------------------------------------------------------------
(* P2SSimulator.calculate_gini_coefficient *)

\* cumsum after the loop over enumerate(sorted_values, 1) from position i on
RECURSIVE GiniCumsum(_, _, _)
GiniCumsum(sorted_values, i, n) ==
    IF i > n THEN Zero
    ELSE FracAdd(FracMul(sorted_values[i], FracOfInt(2 * i - n - 1)),
                 GiniCumsum(sorted_values, i + 1, n))

calculate_gini_coefficient(values) ==
    IF Len(values) = 0 \/ \A k \in 1..Len(values) : values[k] = Zero
    THEN Returned("float", Zero)
    ELSE LET sorted_values == Sorted(values)
             n == Len(sorted_values)
             cumsum == GiniCumsum(sorted_values, 1, n)
             total == FracSum(sorted_values)
         IN  IF FracPos(total)
             THEN Returned("float", PyDiv(cumsum, FracMul(FracOfInt(n), total)))
             ELSE Returned("float", Zero)

-----------------------------------------------------------------------------
(* SpecGini: one call of calculate_gini_coefficient on a list of profits *)

\* the net profits of up to MaxProfits validators, of either sign
InitGini ==
    /\ \E len \in 0..MaxProfits : \E profits \in [1..len -> (-MaxProfit)..MaxProfit] :
          arg = [k \in 1..len |-> FracOfInt(profits[k])]
    /\ op = "idle" /\ ret = NoCall
    /\ chain = <<>>
    /\ RangeIdle
    /\ CompareIdle
    /\ ExtractIdle
    /\ SimIdle

CallGiniCoefficient ==
    Call("calculate_gini_coefficient", calculate_gini_coefficient(arg))

NextGini == CallGiniCoefficient

SpecGini == InitGini /\ [][NextGini]_vars

-----------------------------------------------------------------------------
(* Vocabulary of the properties *)

\* f[1] + ... + f[k]
RECURSIVE SumTo(_, _)
SumTo(f, k) == IF k = 0 THEN 0 ELSE SumTo(f, k - 1) + f[k]

\* the block the node holds for the argument of the call, when it holds one
Obtainable == chain[arg].status = "ok"
TheBlock == chain[arg].block
TheTxs == chain[arg].block.transactions
TheReceipt(i) == chain[arg].receipts[i]

\* the call has returned an analysis / the given detector has returned
Analysed == op = "analyze_block" /\ ret.kind = "analysis"
DetectorReturned(name) == op = name /\ ret.kind = "list"

\* the elements of a set of positions in ascending order
RECURSIVE Ascending(_)
Ascending(S) ==
    IF S = {} THEN <<>>
    ELSE LET m == CHOOSE x \in S : \A y \in S : x <= y
         IN  <<m>> \o Ascending(S \ {m})

-----------------------------------------------------------------------------
(* C1: for every block that analyze_block analyses, total_mev is the sum of
   total_payment over the record's miner payments, profit_potential over its
   swaps, profit_amount over its arbitrages and profit over its sandwich
   attacks, the four lists being those stored in the same record. *)
C1_TotalMevIsSumOfLists ==
    Analysed =>
        LET a == ret.val
        IN  a.total_mev =
                SumTo([k \in 1..Len(a.miner_payments) |-> a.miner_payments[k].total_payment],
                      Len(a.miner_payments))
              + SumTo([k \in 1..Len(a.swaps) |-> a.swaps[k].profit_potential],
                      Len(a.swaps))
              + SumTo([k \in 1..Len(a.arbitrages) |-> a.arbitrages[k].profit_amount],
                      Len(a.arbitrages))
              + SumTo([k \in 1..Len(a.sandwich_attacks) |-> a.sandwich_attacks[k].profit],
                      Len(a.sandwich_attacks))

\* an analysis in which all four lists are non-empty
C1_Witness ==
    /\ Analysed
    /\ Len(ret.val.miner_payments) = 1
    /\ Len(ret.val.swaps) >= 2
    /\ Len(ret.val.arbitrages) = 1
    /\ Len(ret.val.sandwich_attacks) >= 2
    /\ ret.val.total_mev > 0

(* C2: analyze_block returns None exactly when the block cannot be obtained
   (not found, or any fetch error), and returns a BlockAnalysis record whenever
   the block is obtained. *)
C2_NoneIffUnobtainable ==
    op = "analyze_block" =>
        /\ (ret.kind = "None") <=> ~Obtainable
        /\ Obtainable => ret.kind = "analysis"

(* C8: for every obtained block with an empty transaction list, each of the
   four detectors returns an empty list and analyze_block returns a record
   with total_mev = 0 and mev_per_tx = 0. *)
C8_EmptyBlock ==
    (Obtainable /\ Len(TheTxs) = 0) =>
        /\ op \in {"analyze_miner_payments", "detect_swaps", "detect_arbitrages",
                   "detect_sandwich_attacks"} => ret = Returned("list", <<>>)
        /\ op = "analyze_block" =>
              /\ ret.kind = "analysis"
              /\ ret.val.miner_payments = <<>> /\ ret.val.swaps = <<>>
              /\ ret.val.arbitrages = <<>> /\ ret.val.sandwich_attacks = <<>>
              /\ ret.val.total_mev = 0
              /\ ret.val.mev_per_tx = Zero

\* analyze_block has returned for an obtained block without transactions
C8_Witness ==
    /\ Obtainable /\ Len(TheTxs) = 0
    /\ Analysed

\* what the claim takes the gas fees and the coinbase transfer of the block to be
C9_GasFees ==
    SumTo([i \in 1..Len(TheTxs) |->
              IF TheTxs[i].isdict /\ TheReceipt(i).found
              THEN TheReceipt(i).gasUsed * TheTxs[i].gasPrice ELSE 0],
          Len(TheTxs))

C9_Coinbase ==
    SumTo([i \in 1..Len(TheTxs) |->
              IF TheTxs[i].isdict /\ TheTxs[i].to = TheBlock.miner
              THEN TheTxs[i].value * MicroPerEth ELSE 0],
          Len(TheTxs))

(* C9: the miner payment detector returns at most one record, and one exactly
   when coinbase transfers plus gas fees are strictly positive; in it
   total_gas_fees is the sum of gasUsed * gasPrice over the transactions that
   have a receipt, coinbase_transfer the sum of the values of the transactions
   whose recipient is the block's miner, and total_payment their sum. *)
C9_MinerPayment ==
    DetectorReturned("analyze_miner_payments") =>
        /\ Len(ret.val) <= 1
        /\ (Len(ret.val) = 1) <=> (C9_Coinbase + C9_GasFees > 0)
        /\ Len(ret.val) = 1 =>
              /\ ret.val[1].total_gas_fees = C9_GasFees
              /\ ret.val[1].coinbase_transfer = C9_Coinbase
              /\ ret.val[1].total_payment = C9_Coinbase + C9_GasFees
              /\ ret.val[1].miner_address = TheBlock.miner
              /\ ret.val[1].block_number = TheBlock.number

\* the scenario: one transaction of 2 ETH to the miner at 80 gwei, 21000 gas used
C9_Witness ==
    /\ DetectorReturned("analyze_miner_payments")
    /\ Len(TheTxs) = 1
    /\ TheTxs[1].to = TheBlock.miner /\ TheTxs[1].value = 2 /\ TheTxs[1].gasPrice = 80
    /\ TheReceipt(1).found
    /\ ret.val = <<MinerPayment(TheBlock.number, TheBlock.miner, 2 * MicroPerEth,
                                21 * 80, 2 * MicroPerEth + 21 * 80)>>

\* the positions whose recipient is a router address, whatever its casing, and
\* whose receipt exists with status 1
C10_IsRouter(to) ==
    to.tag = "str" /\ \E r \in DOMAIN DEX_ROUTERS : r.id = to.id

C10_SwapPositions ==
    {i \in 1..Len(TheTxs) :
        /\ TheTxs[i].isdict
        /\ C10_IsRouter(TheTxs[i].to)
        /\ TheReceipt(i).found /\ TheReceipt(i).status = 1}

(* C10: the swap detector emits one Swap record, in block order, for exactly
   the transactions whose recipient is an address of the router table in any
   letter-casing and whose receipt exists with success status; a router
   transaction with a missing or failed receipt, and any non-router
   transaction, yields none. *)
C10_Swaps ==
    DetectorReturned("detect_swaps") =>
        LET pos == Ascending(C10_SwapPositions)
        IN  /\ Len(ret.val) = Len(pos)
            /\ \A k \in 1..Len(pos) :
                  /\ ret.val[k].tx_hash = to_hex_string(TheTxs[pos[k]].hash)
                  /\ ret.val[k].sender = TheTxs[pos[k]].from
                  /\ ret.val[k].block_number = TheBlock.number

\* router transactions in both spellings with every receipt outcome: only the
\* successful lower-case one, at position 2, gives a Swap
C10_Witness ==
    /\ DetectorReturned("detect_swaps")
    /\ Len(TheTxs) = 2
    /\ TheTxs[1].to = UniswapV2Router /\ TheReceipt(1) = Receipt(0, 21)
    /\ TheTxs[2].to = Lower(UniswapV2Router) /\ TheReceipt(2) = Receipt(1, 21)
    /\ Len(ret.val) = 1
    /\ ret.val[1].tx_hash = HexStr(arg, 2)

-----------------------------------------------------------------------------
(* Properties of the range scan *)

\* lo, lo + 1, ..., hi as a list (empty when lo > hi)
Interval(lo, hi) == [k \in 1..(hi - lo + 1) |-> lo + k - 1]

\* the block numbers of the range whose block is obtained and on whose block
\* no detector raises
C3_Succeeding ==
    {n \in start_block..end_block :
        chain[n].status = "ok" /\ detect_arbitrages(chain[n].block).kind # "raise"}

ScanOver == pc \in {"returned", "saved", "loaded"}

(* C3: for every range and every pattern of per-block failures (block not
   found, fetch error, an exception raised inside a detector), analyze_blocks
   does not raise, still processes every later block number of the range, and
   returns the analyses of exactly the blocks whose analysis succeeded. *)
C3_SkipAndContinue ==
    /\ pc # "raised"
    /\ pc = "loop" => calls = Interval(start_block, block_num - 1)
    /\ ScanOver =>
          LET ok == Ascending(C3_Succeeding)
          IN  /\ calls = Interval(start_block, end_block)
              /\ ret.kind = "list"
              /\ Len(ret.val) = Len(ok)
              /\ \A k \in 1..Len(ok) :
                    /\ ret.val[k].block_number = ok[k]
                    /\ ret.val[k] = analyze_block(ok[k]).val

\* a scan of three blocks returned: the first not obtained, the second with a
\* detector raising, the third analysed
C3_Witness ==
    /\ pc = "returned"
    /\ start_block = 1 /\ end_block = 3
    /\ chain[1].status # "ok"
    /\ chain[2].status = "ok" /\ detect_arbitrages(chain[2].block).kind = "raise"
    /\ Len(ret.val) = 1 /\ ret.val[1].block_number = 3

\* the first number past the range, where the loop variable stops
C4_PastTheRange == IF start_block > end_block THEN start_block ELSE end_block + 1

(* C4: analyze_blocks(start, end) invokes the block analyzer exactly once for
   each block number from start to end, in ascending order, then terminates;
   the block numbers of the returned analyses are strictly increasing and lie
   in [start, end], and the result is empty when start > end.
   Termination: while the scan is in the loop a step is possible, every call
   made has advanced the loop variable by one (the calls are exactly
   start_block .. block_num - 1), and the loop variable never passes the end
   of the range. *)
C4_AscendingOnceThenReturns ==
    /\ calls = Interval(start_block, block_num - 1)
    /\ block_num \in start_block..C4_PastTheRange
    /\ pc = "loop" => ENABLED NextRange
    /\ \A k \in 1..Len(analyses) :
          /\ analyses[k].block_number \in start_block..end_block
          /\ k > 1 => analyses[k - 1].block_number < analyses[k].block_number
    /\ ScanOver =>
          /\ calls = Interval(start_block, end_block)
          /\ ret = Returned("list", analyses)
          /\ start_block > end_block => (ret.val = <<>> /\ calls = <<>>)

\* a scan of three blocks returned with at least two analyses
C4_Witness ==
    /\ pc = "returned"
    /\ calls = <<1, 2, 3>>
    /\ Len(ret.val) >= 2

-----------------------------------------------------------------------------
(* Properties of the round trip through the results file *)

MEVBlockAnalysisFields ==
    {"block_number", "timestamp", "network", "miner_payments", "swaps",
     "arbitrages", "sandwich_attacks", "total_mev", "mev_per_tx"}

\* the analyses of the loaded file agree with the saved list on the fields
RoundTripOn(fields) ==
    pc = "loaded" =>
        /\ Len(ethereum_data.analyses) = Len(analyses)
        /\ \A k \in 1..Len(analyses) : \A f \in fields :
              /\ f \in DOMAIN ethereum_data.analyses[k]
              /\ ethereum_data.analyses[k][f] = analyses[k][f]

(* C7 as stated: saving a list of BlockAnalysis records and reloading the file
   yields, for each block in the same order, a record with every field of the
   original (block_number, timestamp, network, the four activity lists,
   total_mev, mev_per_tx) and equal values. *)
C7_RoundTripAllFields == RoundTripOn(MEVBlockAnalysisFields)

(* C7 amended: the reloaded records carry every field except network, with
   equal values and in the same order; network is not stored per block but
   once, at the top level of the file, where it equals the network of every
   saved record. *)
C7_RoundTripExceptNetwork ==
    /\ RoundTripOn(MEVBlockAnalysisFields \ {"network"})
    /\ pc = "loaded" =>
          /\ \A k \in 1..Len(analyses) :
                /\ "network" \notin DOMAIN ethereum_data.analyses[k]
                /\ ethereum_data.network = analyses[k].network
          /\ ethereum_data.total_blocks = Len(analyses)

\* a file of two analyses was reloaded, one of them with all four kinds of activity
C7_Witness ==
    /\ pc = "loaded"
    /\ Len(analyses) >= 2
    /\ \E k \in 1..Len(analyses) :
          /\ analyses[k].miner_payments # <<>> /\ analyses[k].swaps # <<>>
          /\ analyses[k].arbitrages # <<>> /\ analyses[k].sandwich_attacks # <<>>
          /\ ethereum_data.analyses[k].sandwich_attacks[1].front_run_tx = None


-----------------------------------------------------------------------------
(* The comparator's reductions *)

Compared == op = "compare_statistics"
TypesAnalysed == op = "analyze_mev_types"

\* the value of an overall metric of a loaded set as the comparison reports it:
\* an absent metric counts as 0
MetricOf(stats, key) == IF key \in DOMAIN stats THEN stats[key] ELSE Zero

\* r is the percentage by which p2s lies under ethereum: r * eth = (eth - p2s) * 100
IsReductionOf(r, eth, p2s) ==
    r.num * eth.num * (eth.den * p2s.den)
        = (eth.num * p2s.den - p2s.num * eth.den) * 100 * (r.den * eth.den)

\* sum of the total_mev fields of a loaded set
SetTotalMev(data) == SumSeq([k \in 1..Len(data.analyses) |-> data.analyses[k].total_mev])

\* number and summed amount of the records of one type in a loaded set
TypeCount(data, mev_type) ==
    SumSeq([k \in 1..Len(data.analyses) |-> Len(data.analyses[k][mev_type])])
TypeTotal(data, mev_type) ==
    SumSeq([k \in 1..Len(data.analyses) |->
              SumSeq([j \in 1..Len(data.analyses[k][mev_type]) |->
                        data.analyses[k][mev_type][j][ValueField(mev_type)]])])

\* C5, as the specification states it: for every numeric metric of the overall
\* comparison and for every activity type's count and total the comparator
\* reports a reduction percentage without raising, and the percentage is 0
\* whenever the ethereum value of the metric is 0.
C5_ReductionReportedForEveryMetric ==
    /\ Compared =>
          /\ ret.kind = "dict"
          /\ \A key \in StatKeys :
                /\ key \in DOMAIN ret.val.differences
                /\ MetricOf(ret.val.ethereum, key) = Zero =>
                      ret.val.differences[key].reduction = Zero
    /\ TypesAnalysed =>
          /\ ret.kind = "dict"
          /\ \A mev_type \in MevTypes :
                /\ TypeCount(ethereum_data, mev_type) = 0 =>
                      ret.val[mev_type].reduction.count_pct = Zero
                /\ TypeTotal(ethereum_data, mev_type) = 0 =>
                      ret.val[mev_type].reduction.total_pct = Zero

\* C5, as the code has it: neither method raises; every activity type's count
\* and total get a percentage, which is 0 whenever the ethereum count or total
\* is 0; the overall comparison reports a reduction for exactly the metrics
\* whose ethereum value is positive, and no entry at all for a metric whose
\* ethereum value is 0.
C5_ReductionNeverRaises ==
    /\ Compared =>
          /\ ret.kind = "dict"
          /\ \A key \in StatKeys :
                key \in DOMAIN ret.val.differences
                    <=> FracPos(MetricOf(ret.val.ethereum, key))
    /\ TypesAnalysed =>
          /\ ret.kind = "dict"
          /\ \A mev_type \in MevTypes :
                /\ ret.val[mev_type].reduction.count_pct.den > 0
                /\ ret.val[mev_type].reduction.total_pct.den > 0
                /\ TypeCount(ethereum_data, mev_type) = 0 =>
                      ret.val[mev_type].reduction.count_pct = Zero
                /\ TypeTotal(ethereum_data, mev_type) = 0 =>
                      ret.val[mev_type].reduction.total_pct = Zero

\* a comparison of a non-empty ethereum set without MEV against a p2s set with
\* MEV has returned, and reports nothing for total_mev
C5_Witness ==
    /\ Compared
    /\ Len(ethereum_data.analyses) > 0
    /\ SetTotalMev(ethereum_data) = 0
    /\ SetTotalMev(p2s_data) > 0
    /\ ret.kind = "dict"
    /\ "total_mev" \notin DOMAIN ret.val.differences
    /\ "total_blocks" \in DOMAIN ret.val.differences

\* C6: for two analysis sets whose ethereum value of a metric M is positive the
\* reported reduction for M is (ethereum_M - p2s_M) / ethereum_M * 100, in the
\* overall comparison and in each type's count_pct and total_pct; ethereum
\* total_mev = 100 against p2s total_mev = 20 gives a reduction of 80 overall,
\* and a total_pct of 80 for the type that all of that MEV belongs to.
C6_ReductionFormula ==
    /\ Compared =>
          /\ ret.kind = "dict"
          /\ \A key \in StatKeys :
                FracPos(MetricOf(ret.val.ethereum, key)) =>
                    /\ key \in DOMAIN ret.val.differences
                    /\ IsReductionOf(ret.val.differences[key].reduction,
                                     MetricOf(ret.val.ethereum, key),
                                     MetricOf(ret.val.p2s, key))
          /\ (SetTotalMev(ethereum_data) = 100 /\ SetTotalMev(p2s_data) = 20) =>
                ret.val.differences["total_mev"].reduction = FracOfInt(80)
    /\ TypesAnalysed =>
          /\ ret.kind = "dict"
          /\ \A mev_type \in MevTypes :
                /\ TypeCount(ethereum_data, mev_type) > 0 =>
                      IsReductionOf(ret.val[mev_type].reduction.count_pct,
                                    FracOfInt(TypeCount(ethereum_data, mev_type)),
                                    FracOfInt(TypeCount(p2s_data, mev_type)))
                /\ TypeTotal(ethereum_data, mev_type) > 0 =>
                      IsReductionOf(ret.val[mev_type].reduction.total_pct,
                                    FracOfInt(TypeTotal(ethereum_data, mev_type)),
                                    FracOfInt(TypeTotal(p2s_data, mev_type)))
                /\ ( /\ SetTotalMev(ethereum_data) = 100
                     /\ SetTotalMev(p2s_data) = 20
                     /\ TypeTotal(ethereum_data, mev_type) = 100
                     /\ TypeTotal(p2s_data, mev_type) = 20 ) =>
                      ret.val[mev_type].reduction.total_pct = FracOfInt(80)

\* the per-type analysis of an ethereum set with 100 of MEV and a p2s set with
\* 20, all of it miner payments, has returned a total_pct of 80
C6_Witness ==
    /\ TypesAnalysed
    /\ SetTotalMev(ethereum_data) = 100
    /\ SetTotalMev(p2s_data) = 20
    /\ TypeTotal(ethereum_data, "miner_payments") = 100
    /\ TypeTotal(p2s_data, "miner_payments") = 20
    /\ ret.kind = "dict"
    /\ ret.val["miner_payments"].reduction.total_pct = FracOfInt(80)

-----------------------------------------------------------------------------
(* Properties of the arbitrage detector *)

\* the senders of the block's transactions
C11_Senders == {TheTxs[i].from : i \in {j \in 1..Len(TheTxs) : TheTxs[j].isdict}}

\* the positions of the sender's transactions that target a router address
C11_RouterPositions(sender) ==
    {i \in 1..Len(TheTxs) :
        TheTxs[i].isdict /\ TheTxs[i].from = sender /\ C10_IsRouter(TheTxs[i].to)}

\* the senders with two or more router-targeting transactions
C11_Qualifying == {s \in C11_Senders : Cardinality(C11_RouterPositions(s)) >= 2}

\* 0.5% of the summed value of the sender's router transactions whose receipt
\* exists with success status
C11_Profit(sender) ==
    SumTo([i \in 1..Len(TheTxs) |->
              IF i \in C11_RouterPositions(sender)
                 /\ TheReceipt(i).found /\ TheReceipt(i).status = 1
              THEN TheTxs[i].value * ArbitrageProfitPerEth ELSE 0],
          Len(TheTxs))

\* the records are one per sender of the set, each anchored to the sender's
\* first router-targeting transaction
C11_OneRecordPer(senders) ==
    /\ Len(ret.val) = Cardinality(senders)
    /\ \A s \in senders :
          \E k \in 1..Len(ret.val) :
              /\ ret.val[k].sender = s
              /\ ret.val[k].tx_hash =
                    to_hex_string(TheTxs[Ascending(C11_RouterPositions(s))[1]].hash)
              /\ ret.val[k].block_number = TheBlock.number
    /\ \A k \in 1..Len(ret.val) : ret.val[k].sender \in senders

(* C11 as stated, on the calls that return: the arbitrage detector emits
   exactly one Arbitrage record for each sender with two or more transactions
   of which two or more target router addresses, and none for any other
   sender; the record's tx_hash is the hash of the sender's first
   router-targeting transaction. *)
C11_OneRecordPerQualifyingSender ==
    DetectorReturned("detect_arbitrages") => C11_OneRecordPer(C11_Qualifying)

(* C11 amended: the arbitrage detector emits exactly one Arbitrage record for
   each sender with two or more router-targeting transactions whose estimated
   profit is strictly positive (at least one of those transactions has a
   successful receipt and a non-zero value), and none for any other sender;
   the record's tx_hash is the hash of the sender's first router-targeting
   transaction and its profit_amount is the estimated profit. *)
C11_OneRecordPerProfitableSender ==
    DetectorReturned("detect_arbitrages") =>
        /\ C11_OneRecordPer({s \in C11_Qualifying : C11_Profit(s) > 0})
        /\ \A k \in 1..Len(ret.val) :
              /\ ret.val[k].profit_amount = C11_Profit(ret.val[k].sender)
              /\ ret.val[k].profit_amount > 0

\* the scenario: a sender with three transactions, the second and third to a
\* router, successful, of 1 and 2 ETH: one record anchored to the second
C11_Witness ==
    /\ DetectorReturned("detect_arbitrages")
    /\ Len(TheTxs) = 3
    /\ \A i \in 1..3 : TheTxs[i].from = SenderA /\ TheReceipt(i) = Receipt(1, 21)
    /\ TheTxs[1].to = OtherAddr
    /\ TheTxs[2].to = UniswapV2Router /\ TheTxs[2].value = 1
    /\ TheTxs[3].to = UniswapV2Router /\ TheTxs[3].value = 2
    /\ Len(ret.val) = 1
    /\ ret.val[1].tx_hash = HexStr(arg, 2)
    /\ ret.val[1].profit_amount = (1 + 2) * ArbitrageProfitPerEth

-----------------------------------------------------------------------------
(* Properties of the sandwich detector *)

\* the positions among the up to `window` preceding and the up to `window`
\* following position i that hold a transaction of the same sender
C12_Before(i, window) ==
    {j \in 1..Len(TheTxs) :
        /\ i - window <= j /\ j < i
        /\ TheTxs[j].isdict /\ TheTxs[j].from = TheTxs[i].from}

C12_After(i, window) ==
    {j \in 1..Len(TheTxs) :
        /\ i < j /\ j <= i + window
        /\ TheTxs[j].isdict /\ TheTxs[j].from = TheTxs[i].from}

\* the positions the claim takes to be sandwich targets
C12_Targets ==
    {i \in 1..Len(TheTxs) :
        /\ TheTxs[i].isdict
        /\ TheTxs[i].gasPrice > 50
        /\ C12_Before(i, 5) \cup C12_After(i, 5) # {}}

(* C12: the sandwich detector emits a record for the transaction at position
   i exactly when its gas price is strictly above 50 gwei and some transaction
   of the same sender lies among the up to 5 transactions before i or the up
   to 5 after i; every record has front_run_tx or back_run_tx set, its
   attacker is the target's sender, and no transaction is the target of two
   records. *)
C12_SandwichRecords ==
    DetectorReturned("detect_sandwich_attacks") =>
        LET pos == Ascending(C12_Targets)
        IN  /\ Len(ret.val) = Len(pos)
            /\ \A k \in 1..Len(pos) :
                  /\ ret.val[k].target_tx = to_hex_string(TheTxs[pos[k]].hash)
                  /\ ret.val[k].tx_hash = ret.val[k].target_tx
                  /\ ret.val[k].attacker = TheTxs[pos[k]].from
                  /\ ret.val[k].front_run_tx # None \/ ret.val[k].back_run_tx # None
            /\ \A k1, k2 \in 1..Len(ret.val) :
                  ret.val[k1].target_tx = ret.val[k2].target_tx => k1 = k2

\* a block of seven transactions: the first, at 80 gwei, has its nearest
\* same-sender companion five positions later and nothing before it, and is a
\* target with only back_run_tx set
C12_Witness ==
    /\ DetectorReturned("detect_sandwich_attacks")
    /\ Len(TheTxs) = 7
    /\ \A i \in {1, 6, 7} : TheTxs[i].from = SenderA /\ TheTxs[i].gasPrice = 80
    /\ \A i \in 2..5 : TheTxs[i].from = SenderB
    /\ \E k \in 1..Len(ret.val) :
          /\ ret.val[k].target_tx = HexStr(arg, 1)
          /\ ret.val[k].front_run_tx = None
          /\ ret.val[k].back_run_tx = HexStr(arg, 6)

-----------------------------------------------------------------------------
(* Sandwich detection under two window sizes *)

WindowsRun == op = "detect_sandwich_attacks_window" /\ ret.kind = "windows"

\* the position in the block of the transaction a hash string names
PositionOf(hash) == hash.id[2]

(* C13 as stated: for every block and window sizes W <= W', every sandwich
   record detected with window W is in the output for W' as the same record,
   front_run_tx and back_run_tx included. *)
C13_SameRecordInWider ==
    WindowsRun =>
        \A k \in 1..Len(ret.val.narrow) :
            \E m \in 1..Len(ret.val.wide) : ret.val.wide[m] = ret.val.narrow[k]

(* C13 amended: for every block and window sizes W <= W', every target
   detected with window W is still a target with window W', with the same
   tx_hash, target_tx, attacker, block number and profit; a back_run_tx that
   was set is unchanged, while a back_run_tx that was unset may become set,
   and a front_run_tx that was set stays set but may name an earlier
   transaction. *)
C13_SameTargetInWider ==
    WindowsRun =>
        \A k \in 1..Len(ret.val.narrow) :
            \E m \in 1..Len(ret.val.wide) :
                LET n == ret.val.narrow[k]
                    w == ret.val.wide[m]
                IN  /\ w.tx_hash = n.tx_hash
                    /\ w.target_tx = n.target_tx
                    /\ w.attacker = n.attacker
                    /\ w.block_number = n.block_number
                    /\ w.profit = n.profit
                    /\ n.back_run_tx # None => w.back_run_tx = n.back_run_tx
                    /\ n.front_run_tx # None =>
                          /\ w.front_run_tx # None
                          /\ PositionOf(w.front_run_tx) <= PositionOf(n.front_run_tx)

\* three transactions of one sender above the threshold: with window 1 the
\* third is front-run by the second, with window 2 by the first
C13_Witness ==
    /\ WindowsRun
    /\ ret.val.narrow_window = 1 /\ ret.val.wide_window = 2
    /\ Len(TheTxs) = 3
    /\ \A i \in 1..3 : TheTxs[i].from = SenderA /\ TheTxs[i].gasPrice = 80
    /\ \E k \in 1..Len(ret.val.narrow) :
          /\ ret.val.narrow[k].target_tx = HexStr(arg, 3)
          /\ ret.val.narrow[k].front_run_tx = HexStr(arg, 2)
    /\ \E m \in 1..Len(ret.val.wide) :
          /\ ret.val.wide[m].target_tx = HexStr(arg, 3)
          /\ ret.val.wide[m].front_run_tx = HexStr(arg, 1)

-----------------------------------------------------------------------------
(* Properties of the per-set statistics *)

\* the two sets a comparison was made of, each with the statistics reported
\* for it
C14_Sides ==
    {[data |-> ethereum_data, stats |-> ret.val.ethereum],
     [data |-> p2s_data, stats |-> ret.val.p2s]}

\* the blocks of a set whose mev_per_tx is strictly positive
C14_Positive(data) ==
    {k \in 1..Len(data.analyses) : data.analyses[k].mev_per_tx.num > 0}

\* the sum of mev_per_tx over the first k blocks, the positive ones only
RECURSIVE C14_PositiveSumTo(_, _)
C14_PositiveSumTo(data, k) ==
    IF k = 0 THEN Zero
    ELSE IF k \in C14_Positive(data)
         THEN FracAdd(C14_PositiveSumTo(data, k - 1), data.analyses[k].mev_per_tx)
         ELSE C14_PositiveSumTo(data, k - 1)

\* m is the mean of the positive mev_per_tx values of the set, 0 when there
\* are none
C14_IsMean(m, data) ==
    IF C14_Positive(data) = {} THEN m = Zero
    ELSE FracMul(m, FracOfInt(Cardinality(C14_Positive(data))))
            = C14_PositiveSumTo(data, Len(data.analyses))

\* m is the median of the positive mev_per_tx values of the set: the middle
\* value of an odd number of them, the midpoint of the two middle values of an
\* even number, 0 when there are none
C14_IsMedian(m, data) ==
    LET P == C14_Positive(data)
        v(k) == data.analyses[k].mev_per_tx
        below(x) == Cardinality({k \in P : FracLess(v(k), x)})
        above(x) == Cardinality({k \in P : FracLess(x, v(k))})
        n == Cardinality(P)
    IN  IF n = 0 THEN m = Zero
        ELSE IF n % 2 = 1
             THEN \E k \in P : /\ m = v(k)
                               /\ below(m) <= (n - 1) \div 2
                               /\ above(m) <= (n - 1) \div 2
             ELSE \E a, b \in P :
                    /\ a # b
                    /\ ~FracLess(v(b), v(a))
                    /\ below(v(a)) <= n \div 2 - 1
                    /\ above(v(b)) <= n \div 2 - 1
                    /\ n - above(v(a)) >= n \div 2
                    /\ n - below(v(b)) >= n \div 2
                    /\ FracMul(m, FracOfInt(2)) = FracAdd(v(a), v(b))

\* the statistics of a set are present and are what the claim says
C14_StatisticsOf(side) ==
    LET data == side.data
        stats == side.stats
        n == Len(data.analyses)
    IN  /\ DOMAIN stats = StatKeys
        /\ stats["total_blocks"] = FracOfInt(n)
        /\ stats["total_mev"] = FracOfInt(SetTotalMev(data))
        /\ FracMul(stats["avg_mev_per_block"], FracOfInt(n)) = stats["total_mev"]
        /\ C14_IsMean(stats["avg_mev_per_tx"], data)
        /\ C14_IsMedian(stats["median_mev_per_tx"], data)
        /\ \A mev_type \in MevTypes :
              stats[mev_type] = FracOfInt(TypeCount(data, mev_type))

(* C14 as stated: for each analysis set the comparator's mean and median MEV
   per transaction are taken over only the strictly positive mev_per_tx values
   and are 0 when none is positive; total_blocks is the number of analyses,
   total_mev the sum of the blocks' total_mev, avg_mev_per_block their
   quotient, and each activity count the number of records of the type over
   all blocks. *)
C14_StatisticsOfEverySet ==
    (Compared /\ ret.kind = "dict") => \A side \in C14_Sides : C14_StatisticsOf(side)

(* C14 amended: the same holds for each analysis set with at least one block;
   for a set with no blocks none of these statistics is reported, the
   statistics of the set being an empty mapping. *)
C14_StatisticsOfNonEmptySet ==
    (Compared /\ ret.kind = "dict") =>
        \A side \in C14_Sides :
            IF Len(side.data.analyses) = 0
            THEN DOMAIN side.stats = {}
            ELSE C14_StatisticsOf(side)

\* an ethereum set of a block without MEV and a block with a payment of 100
\* over two transactions: the mean and the median are 50, not 25
C14_Witness ==
    /\ Compared /\ ret.kind = "dict"
    /\ Len(ethereum_data.analyses) = 2
    /\ ethereum_data.analyses[1].mev_per_tx = Zero
    /\ ethereum_data.analyses[2].mev_per_tx = FracOfInt(50)
    /\ ret.val.ethereum["avg_mev_per_tx"] = FracOfInt(50)
    /\ ret.val.ethereum["median_mev_per_tx"] = FracOfInt(50)
    /\ ret.val.ethereum["total_blocks"] = FracOfInt(2)

-----------------------------------------------------------------------------
(* Properties of a comparison with an empty set *)

\* the statistics the claim names for a set
C15_Named ==
    {"total_blocks", "total_mev", "avg_mev_per_tx", "median_mev_per_tx"} \cup MevTypes

C15_SomeSetEmpty == Len(ethereum_data.analyses) = 0 \/ Len(p2s_data.analyses) = 0

\* analyze_mev_types reports count, total, avg and median 0 for each type of a
\* set without blocks
C15_TypesOfEmptySet(data, side) ==
    Len(data.analyses) = 0 =>
        \A mev_type \in MevTypes :
            ret.val[mev_type][side] =
                [count |-> 0, total |-> Zero, avg |-> Zero, median |-> Zero]

(* C15 as stated: with no blocks on either side, compare_statistics and
   analyze_mev_types complete without raising, and the statistics reported
   for the empty set (total blocks, total MEV, mean, median, activity counts)
   are 0 rather than absent. *)
C15_EmptySetReportsZeros ==
    C15_SomeSetEmpty =>
        /\ Compared =>
              /\ ret.kind = "dict"
              /\ \A side \in C14_Sides :
                    Len(side.data.analyses) = 0 =>
                        \A key \in C15_Named :
                            key \in DOMAIN side.stats /\ side.stats[key] = Zero
        /\ TypesAnalysed =>
              /\ ret.kind = "dict"
              /\ C15_TypesOfEmptySet(ethereum_data, "ethereum")
              /\ C15_TypesOfEmptySet(p2s_data, "p2s")

(* C15 amended: with no blocks on either side neither method raises.  The
   statistics compare_statistics reports for the empty set are absent (an
   empty mapping), not 0; with an empty ethereum set there are no differences
   at all, and with an empty p2s set every difference is reported against a
   p2s value of 0, a reduction of 100.  analyze_mev_types reports count,
   total, avg and median 0 for each type of the empty set. *)
C15_EmptySetReportsNothing ==
    C15_SomeSetEmpty =>
        /\ Compared =>
              /\ ret.kind = "dict"
              /\ \A side \in C14_Sides :
                    Len(side.data.analyses) = 0 => DOMAIN side.stats = {}
              /\ Len(ethereum_data.analyses) = 0 => DOMAIN ret.val.differences = {}
              /\ Len(p2s_data.analyses) = 0 =>
                    \A key \in DOMAIN ret.val.differences :
                        /\ ret.val.differences[key].p2s = Zero
                        /\ ret.val.differences[key].reduction = FracOfInt(100)
        /\ TypesAnalysed =>
              /\ ret.kind = "dict"
              /\ C15_TypesOfEmptySet(ethereum_data, "ethereum")
              /\ C15_TypesOfEmptySet(p2s_data, "p2s")

\* an ethereum set with MEV compared with a p2s set without blocks: no p2s
\* statistics, and a total_mev reduction of 100 against a p2s value of 0
C15_Witness ==
    /\ Compared /\ ret.kind = "dict"
    /\ Len(p2s_data.analyses) = 0
    /\ SetTotalMev(ethereum_data) > 0
    /\ DOMAIN ret.val.p2s = {}
    /\ ret.val.differences["total_mev"].p2s = Zero
    /\ ret.val.differences["total_mev"].reduction = FracOfInt(100)

-----------------------------------------------------------------------------
(* Properties of the per-type analysis *)

\* the individual records of a type in a set, each named by its block and its
\* place in the block's list, and the payment or profit value of one
C16_Records(data, mev_type) ==
    UNION {{<<k, j>> : j \in 1..Len(data.analyses[k][mev_type])} :
              k \in 1..Len(data.analyses)}

C16_Value(data, mev_type, p) ==
    FracOfInt(data.analyses[p[1]][mev_type][p[2]][ValueField(mev_type)])

\* m is the median of the values of the records: the middle value of an odd
\* number, the midpoint of the two middle values of an even number, 0 of none
C16_IsMedian(m, data, mev_type) ==
    LET R == C16_Records(data, mev_type)
        v(p) == C16_Value(data, mev_type, p)
        below(x) == Cardinality({p \in R : FracLess(v(p), x)})
        above(x) == Cardinality({p \in R : FracLess(x, v(p))})
        n == Cardinality(R)
    IN  IF n = 0 THEN m = Zero
        ELSE IF n % 2 = 1
             THEN \E p \in R : /\ m = v(p)
                               /\ below(m) <= (n - 1) \div 2
                               /\ above(m) <= (n - 1) \div 2
             ELSE \E a, b \in R :
                    /\ a # b
                    /\ ~FracLess(v(b), v(a))
                    /\ below(v(a)) <= n \div 2 - 1
                    /\ above(v(b)) <= n \div 2 - 1
                    /\ n - above(v(a)) >= n \div 2
                    /\ n - below(v(b)) >= n \div 2
                    /\ FracMul(m, FracOfInt(2)) = FracAdd(v(a), v(b))

\* what analyze_mev_types reports for one set and one type
C16_SetEntry(entry, data, mev_type) ==
    /\ entry.count = Cardinality(C16_Records(data, mev_type))
    /\ entry.count = TypeCount(data, mev_type)
    /\ Len(data.analyses) > 0 =>
          FracOfInt(entry.count) = calculate_statistics(data)[mev_type]
    /\ entry.total = FracOfInt(TypeTotal(data, mev_type))
    /\ IF entry.count = 0 THEN entry.avg = Zero
       ELSE FracMul(entry.avg, FracOfInt(entry.count)) = entry.total
    /\ C16_IsMedian(entry.median, data, mev_type)

(* C16: for each of the four activity types analyze_mev_types reports for each
   set a count equal to the number of individual records of the type over all
   blocks (the type's count in calculate_statistics), a total equal to the sum
   of the records' payment or profit values, their mean and median (0 when
   there are none), and the reductions count = eth_count - p2s_count,
   count_pct = count / eth_count * 100, total = eth_total - p2s_total and
   total_pct = total / eth_total * 100. *)
C16_PerTypeReport ==
    (TypesAnalysed /\ ret.kind = "dict") =>
        /\ DOMAIN ret.val = MevTypes
        /\ \A mev_type \in MevTypes :
              LET e == ret.val[mev_type]
              IN  /\ C16_SetEntry(e.ethereum, ethereum_data, mev_type)
                  /\ C16_SetEntry(e.p2s, p2s_data, mev_type)
                  /\ e.reduction.count = e.ethereum.count - e.p2s.count
                  /\ e.reduction.total = FracSub(e.ethereum.total, e.p2s.total)
                  /\ e.ethereum.count > 0 =>
                        FracMul(e.reduction.count_pct, FracOfInt(e.ethereum.count))
                            = FracOfInt(e.reduction.count * 100)
                  /\ FracPos(e.ethereum.total) =>
                        FracMul(e.reduction.total_pct, e.ethereum.total)
                            = FracMul(e.reduction.total, Hundred)

\* an ethereum set of two blocks with two sandwiches each, of profit 1 and 2,
\* against a p2s set of one such block: four records against two, a median of
\* 3/2, and reductions of 50 percent in count and in total
C16_Witness ==
    /\ TypesAnalysed /\ ret.kind = "dict"
    /\ Len(ethereum_data.analyses) = 2 /\ Len(p2s_data.analyses) = 1
    /\ \A k \in 1..2 : Len(ethereum_data.analyses[k].sandwich_attacks) = 2
    /\ Len(p2s_data.analyses[1].sandwich_attacks) = 2
    /\ ret.val["sandwich_attacks"].ethereum.count = 4
    /\ ret.val["sandwich_attacks"].ethereum.total = FracOfInt(6)
    /\ ret.val["sandwich_attacks"].ethereum.median = Frac(3, 2)
    /\ ret.val["sandwich_attacks"].reduction.count = 2
    /\ ret.val["sandwich_attacks"].reduction.count_pct = FracOfInt(50)
    /\ ret.val["sandwich_attacks"].reduction.total_pct = FracOfInt(50)

-----------------------------------------------------------------------------
(* Properties of the block extractor *)

\* fetch_block has returned; the API answered with a block that lists its
\* transactions
Fetched == op = "fetch_block" /\ ret.kind = "block"
RawFetched == chain[arg].status = "200" /\ chain[arg].data.has_transactions
RawTxs == chain[arg].data.transactions

\* a numeric field that cannot be coerced: a string that is not a hex number
Uncoercible(field) ==
    /\ field.kind = "str"
    /\ \/ Len(field.digits) = 0
       \/ \E k \in 1..Len(field.digits) : field.digits[k] > 15

Malformed(tx) ==
    Uncoercible(tx.value) \/ Uncoercible(tx.gas) \/ Uncoercible(tx.gas_price)

(* C17: when a raw block contains a malformed transaction (a field that cannot
   be coerced to its numeric type), only that transaction is dropped: the
   block returned and cached for the block number consists of the remaining
   transactions of the fetched block, in their original order.  Stated for
   raw blocks of at most 200 transactions. *)
C17_OnlyMalformedDropped ==
    ( /\ Fetched /\ RawFetched
      /\ Len(RawTxs) <= 200
      /\ \E i \in 1..Len(RawTxs) : Malformed(RawTxs[i]) ) =>
        LET pos == Ascending({i \in 1..Len(RawTxs) : ~Malformed(RawTxs[i])})
        IN  /\ Len(ret.val.transactions) = Len(pos)
            /\ \A k \in 1..Len(pos) :
                  ret.val.transactions[k].hash = RawTxs[pos[k]].hash
            /\ cached_blocks[block_key(arg)] = ret.val

\* 16 to the power k
RECURSIVE Pow16(_)
Pow16(k) == IF k = 0 THEN 1 ELSE 16 * Pow16(k - 1)

\* the integer a raw numeric field stands for: the number a hex string
\* writes, the native integer itself, the default when the field is missing
C18_Denoted(field, default) ==
    IF field.kind = "str"
    THEN SumTo([k \in 1..Len(field.digits) |->
                   field.digits[k] * Pow16(Len(field.digits) - k)],
               Len(field.digits))
    ELSE IF field.kind = "int" THEN field.n ELSE default

\* the normalized block holds exactly the given raw transactions, in order,
\* with transaction_count their number and the numeric fields as integers
C18_NormalizedFrom(raw) ==
    /\ Len(ret.val.transactions) = Len(raw)
    /\ ret.val.transaction_count = Len(raw)
    /\ \A i \in 1..Len(raw) :
          LET tx == ret.val.transactions[i]
          IN  /\ tx.hash = raw[i].hash
              /\ tx.nonce = raw[i].nonce
              /\ tx.value \in Int /\ tx.gas \in Int /\ tx.gasPrice \in Int
              /\ tx.value = C18_Denoted(raw[i].value, 0)
              /\ tx.gas = C18_Denoted(raw[i].gas, 21000)
              /\ tx.gasPrice = C18_Denoted(raw[i].gas_price, 20)

\* the first k transactions of the raw block, all of them when it has fewer
C18_First(k) == [i \in 1..(IF Len(RawTxs) < k THEN Len(RawTxs) ELSE k) |-> RawTxs[i]]

(* C18 as stated: for every successfully fetched raw block whose numeric
   fields are hex strings, native integers or missing, the normalized block
   contains every transaction of the raw block in the order received,
   transaction_count is their number, value, gas and gasPrice are integers,
   and a missing gas limit gives 21000 and a missing gas price 20 gwei. *)
C18_EveryTransactionKept ==
    ( /\ Fetched /\ RawFetched
      /\ \A i \in 1..Len(RawTxs) : ~Malformed(RawTxs[i]) ) =>
        C18_NormalizedFrom(RawTxs)

(* C18 amended: the normalized block contains the first 200 transactions of
   the raw block, all of them when it has at most 200, in the order received;
   transaction_count is the number of transactions kept; value, gas and
   gasPrice are integers whether the source gave a hex string or a native
   integer, and a missing gas limit gives 21000 and a missing gas price
   20 gwei. *)
C18_First200Kept ==
    ( /\ Fetched /\ RawFetched
      /\ \A i \in 1..Len(C18_First(200)) : ~Malformed(RawTxs[i]) ) =>
        /\ C18_NormalizedFrom(C18_First(200))
        /\ cached_blocks[block_key(arg)] = ret.val

\* a raw block of 201 transactions has been fetched: 200 are kept, the last of
\* them the 200th received
C18_Witness ==
    /\ Fetched /\ RawFetched
    /\ Len(RawTxs) = 201
    /\ Len(ret.val.transactions) = 200
    /\ ret.val.transaction_count = 200
    /\ ret.val.transactions[200].hash = RawTxs[200].hash

-----------------------------------------------------------------------------
(* Single-block mode against the range of size 1 *)

(* C19: single-block mode is the range of size 1: for every block number n
   and every outcome of fetching and analysing n, analysing the single block n
   gives what analyze_blocks(n, n) gives, a one-element set holding
   analyze_block(n) when the block can be analysed and nothing otherwise, with
   the same error behaviour. *)
C19_SingleIsRangeOfOne ==
    op = "main_block" =>
        LET range == analyze_blocks(arg, arg)
        IN  /\ (pc = "raised") <=> (range.kind = "raise")
            /\ range.kind = "list" =>
                  /\ pc = "complete"
                  /\ analyses = range.val
                  /\ analyses = IF analyze_block(arg).kind = "analysis"
                                THEN <<analyze_block(arg).val>> ELSE <<>>

-----------------------------------------------------------------------------
(* Receipt lookups that miss *)

\* the positions of the transactions whose receipt lookup misses
C20_Missed == {i \in 1..Len(TheTxs) : TheTxs[i].isdict /\ ~TheReceipt(i).found}

\* the block without those transactions, the others in their order
C20_WithoutMissed ==
    LET pos == Ascending((1..Len(TheTxs)) \ C20_Missed)
    IN  [TheBlock EXCEPT !.transactions = [k \in 1..Len(pos) |-> TheTxs[pos[k]]]]

\* gas fees and coinbase transfer of a miner payment detector's output
C20_Fees(payments) == IF Len(payments) = 0 THEN 0 ELSE payments[1].total_gas_fees
C20_Coinbase(payments) == IF Len(payments) = 0 THEN 0 ELSE payments[1].coinbase_transfer

\* the values sent to the miner by the transactions whose lookup misses
C20_MissedToMiner ==
    SumTo([i \in 1..Len(TheTxs) |->
              IF i \in C20_Missed /\ TheTxs[i].to = TheBlock.miner
              THEN TheTxs[i].value * MicroPerEth ELSE 0],
          Len(TheTxs))

\* what holds of the swap and the arbitrage detector: no Swap record comes
\* from a missed transaction, no profit of an arbitrage does, and a detector
\* that raises does so over a transaction without recipient, not over a miss
C20_SwapsAndArbitrages ==
    /\ DetectorReturned("detect_swaps") => ret.val = detect_swaps(C20_WithoutMissed)
    /\ DetectorReturned("detect_arbitrages") =>
          \A k \in 1..Len(ret.val) :
              ret.val[k].profit_amount =
                  SumTo([i \in 1..Len(TheTxs) |->
                            IF /\ i \notin C20_Missed
                               /\ i \in C11_RouterPositions(ret.val[k].sender)
                               /\ TheReceipt(i).status = 1
                            THEN TheTxs[i].value * ArbitrageProfitPerEth ELSE 0],
                        Len(TheTxs))
    /\ (op \in {"analyze_miner_payments", "detect_swaps", "detect_arbitrages",
                "detect_sandwich_attacks", "analyze_block"} /\ ret.kind = "raise") =>
          \E i \in 1..Len(TheTxs) : TheTxs[i].isdict /\ TheTxs[i].to = None

(* C20 as stated: in every detector a transaction whose receipt lookup misses
   is skipped: it contributes nothing to the detector's output (for the miner
   payment detector neither gas fees nor coinbase transfer, for the swap
   detector no Swap record, for the arbitrage detector no profit), and the
   miss never fails the block. *)
C20_MissContributesNothing ==
    /\ DetectorReturned("analyze_miner_payments") =>
          ret.val = analyze_miner_payments(C20_WithoutMissed)
    /\ C20_SwapsAndArbitrages

(* C20 amended: a transaction whose receipt lookup misses contributes no gas
   fees to the miner payment, no Swap record and no arbitrage profit, and the
   miss never fails the block; but the miner payment detector still counts
   its value as a coinbase transfer when its recipient is the block's miner,
   the test of the recipient not depending on the receipt. *)
C20_MissSkippedButForCoinbase ==
    /\ DetectorReturned("analyze_miner_payments") =>
          LET without == analyze_miner_payments(C20_WithoutMissed)
          IN  /\ C20_Fees(ret.val) = C20_Fees(without)
              /\ C20_Coinbase(ret.val) = C20_Coinbase(without) + C20_MissedToMiner
    /\ C20_SwapsAndArbitrages

\* one transaction of 1 ETH to the miner whose receipt is not found: a miner
\* payment with that coinbase transfer and no gas fees
C20_Witness ==
    /\ DetectorReturned("analyze_miner_payments")
    /\ Len(TheTxs) = 1
    /\ TheTxs[1].to = TheBlock.miner /\ TheTxs[1].value = 1
    /\ ~TheReceipt(1).found
    /\ Len(ret.val) = 1
    /\ ret.val[1].coinbase_transfer = MicroPerEth
    /\ ret.val[1].total_gas_fees = 0

-----------------------------------------------------------------------------
(* Properties of the records' contents *)

\* the label the router table assigns to the router an address spells
C21_LabelOf(to) == DEX_ROUTERS[CHOOSE r \in DOMAIN DEX_ROUTERS : r.id = to.id]

(* C21: every Swap record carries the protocol label that the known-router
   table assigns to the router its recipient matched, for every letter-casing
   of the recipient address that matches the table case-insensitively. *)
C21_LabelOfMatchedRouter ==
    DetectorReturned("detect_swaps") =>
        LET pos == Ascending(C10_SwapPositions)
        IN  \A k \in 1..Len(ret.val) :
                k <= Len(pos) => ret.val[k].protocol = C21_LabelOf(TheTxs[pos[k]].to)

\* the four detectors of MEVInspector
C22_Detectors ==
    {"analyze_miner_payments", "detect_swaps", "detect_arbitrages",
     "detect_sandwich_attacks"}

\* the block holds a contract creation: a transaction whose recipient is None
C22_HasContractCreation ==
    \E i \in 1..Len(TheTxs) : TheTxs[i].isdict /\ TheTxs[i].to = None

(* C22: every block containing a transaction with no recipient (contract
   creation) is still handled by all four detectors: each returns a (possibly
   empty) sequence of records and none raises, whatever the other transactions
   of the block and their senders are. *)
C22_ContractCreationHandled ==
    (Obtainable /\ C22_HasContractCreation /\ op \in C22_Detectors) =>
        ret.kind = "list"

\* the positions of the sender's router-targeting transactions whose receipt
\* indicates success
C23_Successful(sender) ==
    {i \in C11_RouterPositions(sender) : TheReceipt(i).found /\ TheReceipt(i).status = 1}

\* the summed value, in ETH, of the transactions at a set of positions
C23_ValueAt(positions) ==
    SumTo([i \in 1..Len(TheTxs) |-> IF i \in positions THEN TheTxs[i].value ELSE 0],
          Len(TheTxs))

(* C23: an Arbitrage record's profit_amount equals 0.5% of the summed value of
   the sender's router-targeting transactions whose receipt indicates success;
   router-targeting transactions with a failed or missing receipt add nothing,
   so the amount is the same as if they were not in the block. *)
C23_ProfitIsHalfPercentOfSuccessful ==
    DetectorReturned("detect_arbitrages") =>
        \A k \in 1..Len(ret.val) :
            LET s == ret.val[k].sender
            IN  /\ ret.val[k].profit_amount =
                       C23_ValueAt(C23_Successful(s)) * ArbitrageProfitPerEth
                /\ ret.val[k].profit_token = WETH
                /\ C23_Successful(s) # {}

\* a sender with three router transactions, of 1 ETH successful, 2 ETH failed
\* and 2 ETH successful: one record whose profit is 0.5% of the 3 ETH that
\* succeeded
C23_Witness ==
    /\ DetectorReturned("detect_arbitrages")
    /\ Len(TheTxs) = 3
    /\ \A i \in 1..3 : TheTxs[i].from = SenderA /\ TheTxs[i].to = UniswapV2Router
    /\ TheTxs[1].value = 1 /\ TheReceipt(1) = Receipt(1, 21)
    /\ TheTxs[2].value = 2 /\ TheReceipt(2) = Receipt(0, 21)
    /\ TheTxs[3].value = 2 /\ TheReceipt(3) = Receipt(1, 21)
    /\ Len(ret.val) = 1
    /\ ret.val[1].profit_amount = (1 + 2) * ArbitrageProfitPerEth

-----------------------------------------------------------------------------
(* Properties of a single sandwich *)

\* sender S has transactions at p - 2, p and p + 2, the one at p is above the
\* gas threshold, and no other transaction of the block is
C24_Pattern(p) ==
    /\ p - 2 >= 1 /\ p + 2 <= Len(TheTxs)
    /\ \A i \in 1..Len(TheTxs) : TheTxs[i].isdict
    /\ TheTxs[p - 2].from = TheTxs[p].from /\ TheTxs[p + 2].from = TheTxs[p].from
    /\ \A i \in 1..Len(TheTxs) : (TheTxs[i].gasPrice > SandwichGasThreshold) <=> (i = p)

\* the one record: the target at p between its sender's transactions at p - 2
\* and p + 2, with 1% of the target's value as profit
C24_OneRecord(p) ==
    ret.val = <<SandwichAttack(to_hex_string(TheTxs[p].hash), TheBlock.number,
                               TheTxs[p].from, to_hex_string(TheTxs[p].hash),
                               to_hex_string(TheTxs[p - 2].hash),
                               to_hex_string(TheTxs[p + 2].hash),
                               TheTxs[p].value * SandwichProfitPerEth)>>

\* the sender of p has no transaction among the positions the scans reach
\* before p - 2 and p + 2: p - 5 .. p - 3 and p + 1
C24_NoneReachedFirst(p) ==
    \A i \in 1..Len(TheTxs) :
        (i \in (p - SandwichWindow)..(p - 3) \/ i = p + 1) => TheTxs[i].from # TheTxs[p].from

(* C24 as stated: in a block where sender S has transactions at positions
   p-2, p and p+2, the one at p has gas price above 50 gwei, and no other
   transaction exceeds 50 gwei, the sandwich detector returns exactly one
   record: its target is the transaction at p, front_run_tx is the hash of the
   transaction at p-2, back_run_tx the hash of the transaction at p+2, and its
   profit is 1% of the target's value. *)
C24_SandwichAtDistanceTwo ==
    DetectorReturned("detect_sandwich_attacks") =>
        \A p \in 1..Len(TheTxs) : C24_Pattern(p) => C24_OneRecord(p)

(* C24 amended: the same, provided S has no transaction at the positions
   p-5 .. p-3 nor at p+1; S may have one at p-1. *)
C24_SandwichAtDistanceTwoAlone ==
    DetectorReturned("detect_sandwich_attacks") =>
        \A p \in 1..Len(TheTxs) :
            (C24_Pattern(p) /\ C24_NoneReachedFirst(p)) => C24_OneRecord(p)

\* six transactions, the sender of the fourth also at 2 and 6 and the other
\* sender at 1, 3 and 5: one record, front-run 2 and back-run 6
C24_Witness ==
    /\ DetectorReturned("detect_sandwich_attacks")
    /\ Len(TheTxs) = 6
    /\ C24_Pattern(4) /\ C24_NoneReachedFirst(4)
    /\ \A i \in {1, 3, 5} : TheTxs[i].from = SenderB
    /\ Len(ret.val) = 1
    /\ ret.val[1].front_run_tx = HexStr(arg, 2)
    /\ ret.val[1].back_run_tx = HexStr(arg, 6)

-----------------------------------------------------------------------------
(* Properties of the Swap records' amounts *)

\* a Swap record whose tokens and amounts were not inferred
C25_Uninferred(swap) ==
    /\ swap.token_in = "Unknown" /\ swap.token_out = "Unknown"
    /\ swap.amount_in = 0 /\ swap.amount_out = 0
    /\ swap.profit_potential = 0

\* the sum of the field over the records of a list
C25_Total(records, field) ==
    SumTo([k \in 1..Len(records) |-> records[k][field]], Len(records))

(* C25: every Swap record produced by the swap detector has token_in =
   token_out = "Unknown", amount_in = amount_out = 0 and profit_potential = 0,
   yet is still recorded (one record per successful router transaction);
   consequently the swaps are counted in a block's record but its total_mev
   is the sum over the other three lists alone. *)
C25_SwapsCountedNotValued ==
    /\ DetectorReturned("detect_swaps") =>
          /\ Len(ret.val) = Cardinality(C10_SwapPositions)
          /\ \A k \in 1..Len(ret.val) : C25_Uninferred(ret.val[k])
    /\ Analysed =>
          /\ Len(ret.val.swaps) = Cardinality(C10_SwapPositions)
          /\ \A k \in 1..Len(ret.val.swaps) : C25_Uninferred(ret.val.swaps[k])
          /\ ret.val.total_mev =
                 C25_Total(ret.val.miner_payments, "total_payment")
                 + C25_Total(ret.val.arbitrages, "profit_amount")
                 + C25_Total(ret.val.sandwich_attacks, "profit")

\* an analysed block of two successful router transactions of different
\* senders: two swaps in the record, nothing else valued but the gas fees
C25_Witness ==
    /\ Analysed
    /\ Len(TheTxs) = 2
    /\ TheTxs[1].from # TheTxs[2].from
    /\ Len(ret.val.swaps) = 2
    /\ ret.val.arbitrages = <<>> /\ ret.val.sandwich_attacks = <<>>
    /\ ret.val.total_mev = C25_Total(ret.val.miner_payments, "total_payment")

-----------------------------------------------------------------------------
(* Properties of the Gini coefficient *)

\* x <= y on fractions
C26_AtMost(x, y) == ~FracLess(y, x)

\* sum_i v_(i) * (2i - n - 1) over the ascending values, as a fraction of
\* n * sum v
C26_Formula(values) ==
    LET v == Sorted(values)
        n == Len(v)
    IN  Frac(SumTo([i \in 1..n |-> v[i].num * (2 * i - n - 1)], n),
             n * SumTo([i \in 1..n |-> v[i].num], n))

(* C26: calculate_gini_coefficient never raises and returns 0 for an empty
   list and for an all-zero list; for every list of non-negative values with
   positive sum it returns sum_i v_(i) * (2i - n - 1) / (n * sum v) over the
   ascending-sorted values, which lies in [0, (n-1)/n]; for every input,
   including lists with negative profits, the result lies in [0, 1]. *)
C26_GiniWithinUnitInterval ==
    op = "calculate_gini_coefficient" =>
        LET n == Len(arg)
            total == FracSum(arg)
        IN  /\ ret.kind = "float" /\ ~IsError(ret.val)
            /\ (\A k \in 1..n : arg[k] = Zero) => ret.val = Zero
            /\ ((\A k \in 1..n : ~FracLess(arg[k], Zero)) /\ FracPos(total)) =>
                  /\ ret.val = C26_Formula(arg)
                  /\ C26_AtMost(Zero, ret.val) /\ C26_AtMost(ret.val, Frac(n - 1, n))
            /\ C26_AtMost(Zero, ret.val) /\ C26_AtMost(ret.val, FracOfInt(1))

-----------------------------------------------------------------------------
(* Properties of the simulator *)

\* the arguments of the simulation that has just returned
LastCall == calls[Len(calls)]

SimulationReturned == op \in {"simulate_p2s_block", "simulate_ethereum_pos_block"}

\* 5% of the value of every transaction of the cached block whose value
\* exceeds 1 ETH and whose gas price is below 50 gwei; 0 for a block of fewer
\* than 2 transactions
C27_Opportunity(ethereum_block) ==
    LET txs == ethereum_block.transactions
    IN  IF Len(txs) < 2 THEN Zero
        ELSE Frac(ReorderProfitPercent
                    * SumTo([k \in 1..Len(txs) |->
                                IF txs[k].value > ReorderMinValueEth
                                   /\ txs[k].gasPrice.n < ReorderMaxGasPrice
                                THEN txs[k].value ELSE 0], Len(txs)),
                  100)

(* C27: the reordering opportunity computed for a simulated block counts a
   transaction only when its value exceeds 1 ETH and its gas price is below
   50 gwei, each such transaction adding 5% of its value; it is 0 for a block
   with fewer than 2 transactions, and the P2S opportunity for a block is
   exactly one tenth of the Ethereum PoS opportunity for the same block. *)
C27_OpportunityOfCheapLargeTransfers ==
    SimulationReturned =>
        LET expected == C27_Opportunity(LastCall.ethereum_block)
        IN  IF op = "simulate_ethereum_pos_block"
            THEN ret.val.mev_opportunity = expected
            ELSE ret.val.mev_opportunity = Frac(expected.num, expected.den * 10)

-----------------------------------------------------------------------------
(* Which companions a sandwich record names *)

\* the hash string of the transaction at the least position of a set, None
\* for the empty set
C28_HashOfFirst(positions) ==
    IF positions = {} THEN None
    ELSE to_hex_string(TheTxs[CHOOSE j \in positions : \A l \in positions : j <= l].hash)

(* C28: when several same-sender transactions lie in a sandwich target's
   windows, the detector's choice is asymmetric: front_run_tx is the earliest
   same-sender transaction within the 5 preceding positions (the one farthest
   from the target), while back_run_tx is the first same-sender transaction
   within the 5 following positions (the one nearest to the target). *)
C28_FarthestBeforeNearestAfter ==
    DetectorReturned("detect_sandwich_attacks") =>
        \A k \in 1..Len(ret.val) :
            LET i == PositionOf(ret.val[k].target_tx)
            IN  /\ ret.val[k].front_run_tx = C28_HashOfFirst(C12_Before(i, SandwichWindow))
                /\ ret.val[k].back_run_tx = C28_HashOfFirst(C12_After(i, SandwichWindow))

\* five transactions of one sender, only the third above the gas threshold:
\* two companions on each side, the record names the first and the fourth
C28_Witness ==
    /\ DetectorReturned("detect_sandwich_attacks")
    /\ Len(TheTxs) = 5
    /\ \A i \in 1..5 : TheTxs[i].from = SenderA
    /\ \A i \in 1..5 : (TheTxs[i].gasPrice > SandwichGasThreshold) <=> (i = 3)
    /\ Len(ret.val) = 1
    /\ ret.val[1].front_run_tx = HexStr(arg, 1)
    /\ ret.val[1].back_run_tx = HexStr(arg, 4)

-----------------------------------------------------------------------------
(* Properties of the block cache *)

(* C29: after any sequence of fetch_block and extract_blocks calls, every
   block number for which fetch_block has returned is present in the cache; a
   cached entry is never removed or replaced, so the cache still holds, for
   each of those returns, the very block that was returned; and every later
   fetch_block of the same number returns that block without contacting the
   API, including when the first result was a synthetic fallback block. *)
C29_CacheKeepsWhatWasFetched ==
    /\ \A k \in 1..Len(calls) :
          /\ block_key(calls[k].block_number) \in DOMAIN cached_blocks
          /\ cached_blocks[block_key(calls[k].block_number)] = calls[k].block
    /\ \A k1, k2 \in 1..Len(calls) :
          (k1 < k2 /\ calls[k1].block_number = calls[k2].block_number) =>
              /\ ~calls[k2].api
              /\ calls[k2].block = calls[k1].block
    /\ \A key \in DOMAIN cached_blocks :
          \E k \in 1..Len(calls) : key = block_key(calls[k].block_number) /\ calls[k].api

\* the API has no block 1: the first fetch_block gave a synthetic block, an
\* extraction went over the block, and a later fetch_block returned the same
\* block from the cache
C29_Witness ==
    /\ op = "fetch_block" /\ arg = 1
    /\ chain[1].status = "404"
    /\ Len(calls) = 2
    /\ calls[1].block_number = 1 /\ calls[1].api
    /\ calls[1].block.transaction_count = SyntheticMinTxs
    /\ calls[2].block_number = 1 /\ ~calls[2].api
    /\ ret.val = calls[1].block
    /\ disk.exists

-----------------------------------------------------------------------------
(* Properties of the validators' records *)

\* the blocks simulated so far, of both protocols
C30_Blocks == results.p2s_data \o results.ethereum_pos_data

\* those a validator proposed
C30_BlocksOf(v_id) == SelectSeq(C30_Blocks, LAMBDA block : block.proposer = v_id)

\* the sum of a field over a list of blocks
C30_Total(blocks, field) == FracSum([k \in 1..Len(blocks) |-> blocks[k][field]])

\* blocks_proposed summed over the validators of a protocol among ids
RECURSIVE C30_Proposed(_, _)
C30_Proposed(ids, protocol) ==
    IF ids = {} THEN 0
    ELSE LET v_id == CHOOSE x \in ids : TRUE
         IN  C30_Proposed(ids \ {v_id}, protocol)
             + (IF validators[v_id].protocol = protocol
                THEN validators[v_id].blocks_proposed ELSE 0)

\* the number of blocks of a list whose proposer is a registered validator
C30_Registered(data) ==
    Cardinality({k \in 1..Len(data) : data[k].proposer \in DOMAIN validators})

(* C30: after any sequence of simulate_p2s_block and
   simulate_ethereum_pos_block calls, every validator satisfies net_profit =
   total_rewards - total_gas_costs; the sum of blocks_proposed over the
   validators of a protocol equals the number of blocks simulated for that
   protocol with a registered proposer; a block updates only its proposer's
   record (each record counts and totals exactly the blocks its validator
   proposed); and the mev_extracted of every P2S validator stays 0. *)
C30_ValidatorRecords ==
    /\ \A v_id \in DOMAIN validators :
          LET v == validators[v_id]
              mine == C30_BlocksOf(v_id)
          IN  /\ v.net_profit = FracSub(v.total_rewards, v.total_gas_costs)
              /\ v.blocks_proposed = Len(mine)
              /\ v.total_rewards = C30_Total(mine, "block_reward")
              /\ v.total_gas_costs = C30_Total(mine, "gas_cost")
              /\ v.protocol = "P2S" => v.mev_extracted = Zero
              /\ v.id = v_id
    /\ C30_Proposed(DOMAIN validators, "P2S") = C30_Registered(results.p2s_data)
    /\ C30_Proposed(DOMAIN validators, "Ethereum PoS")
          = C30_Registered(results.ethereum_pos_data)

\* one block simulated for each protocol, both with transactions above 1 ETH:
\* each proposer has one block, the Ethereum PoS proposer has extracted MEV
\* and the P2S proposer has not
C30_Witness ==
    /\ Len(results.p2s_data) = 1 /\ Len(results.ethereum_pos_data) = 1
    /\ FracPos(results.p2s_data[1].mev_opportunity)
    /\ validators[results.p2s_data[1].proposer].blocks_proposed = 1
    /\ validators[results.p2s_data[1].proposer].mev_extracted = Zero
    /\ validators[results.p2s_data[1].proposer].net_profit # Zero
    /\ FracPos(validators[results.ethereum_pos_data[1].proposer].mev_extracted)

====
